---- MODULE Spec2Model ----
(***************************************************************************)
(* Model of the alerting pipeline of the Pret inventory monitor:           *)
(*   SmartAlertFilter, AlertManager            (src/monitor/src/alerts.ts) *)
(*   calculateAlertSeverity, generateId        (src/monitor/src/utils.ts)  *)
(*   InventoryMonitorApp, PushNotificationManager                          *)
(*                                          (src/monitor/public/sw.js)     *)
(*                                                                         *)
(* Times are milliseconds, as in the code.  A JavaScript value that may be *)
(* absent is modelled by the value Undefined; an object is a function from *)
(* its keys to their values.                                               *)
(***************************************************************************)
EXTENDS Integers, Sequences, FiniteSets, TLC

VARIABLES
  now,               \* the wall clock read by Date.now() / new Date()
  recentAlerts,      \* SmartAlertFilter.recentAlerts : key -> time of last allowed call
  suppressionRules,  \* SmartAlertFilter.suppressionRules : type -> override window
  alerts,            \* AlertManager.alerts, newest first
  persisted,         \* localStorage item 'pret-alerts'
  storageWorks,      \* localStorage.setItem succeeds (it throws when storage is unavailable or full)
  listeners,         \* AlertManager.listeners
  notificationQueue, \* AlertManager.notificationQueue
  permission,        \* Notification.permission of the browser
  cachedPermission,  \* PushNotificationManager.permission
  awaitingReady,     \* sendPushNotification calls suspended at `await navigator.serviceWorker.ready`
  attempts,          \* history: alert -> number of showNotification calls made for it, per path
  sinceTick,         \* history: number of showNotification calls since the last drain tick (0, 1, or 2 for more)
  created,           \* history: number of alerts created by addAlert
  advances,          \* history: number of clock advances
  calls,             \* history: number of shouldSuppressAlert calls
  lastAllowed,       \* history: key -> time of the last call that returned false
  lastCall,          \* history: the last shouldSuppressAlert call
  polling,           \* InventoryMonitorApp.initialize has started the polling loop
  stateAlerts,       \* InventoryMonitorApp.state.alerts, as the ids of its alerts
  connections,       \* MachineConnectionManager.connections, as the ids of the connected stores
  passes,            \* the updateAllStores calls in flight, each with its position
  lastOp             \* history: the operation performed by the last step

vars == <<now, recentAlerts, suppressionRules, alerts, persisted, storageWorks, listeners,
          notificationQueue, permission, cachedPermission, awaitingReady,
          attempts, sinceTick, created, advances, calls,
          lastAllowed, lastCall, polling, stateAlerts, connections, passes, lastOp>>

filterVars == <<recentAlerts, suppressionRules>>
filterHist == <<lastAllowed, lastCall, calls>>
storeVars == <<alerts, persisted, listeners>>
queueVars == <<notificationQueue, awaitingReady, attempts, sinceTick>>
pollVars == <<connections, passes>>
envVars == <<permission, cachedPermission, polling, stateAlerts, connections, passes>>

----------------------------------------------------------------------------
(* Bounds of the model *)

\* the clock reading at construction; Date.now() is far larger than any window
StartTime == 1000000000
\* number of clock advances in one behaviour
MaxAdvances == 1
\* number of shouldSuppressAlert calls in one behaviour
MaxCalls == 3
\* number of alert types with an override window at one time
MaxRules == 1
\* number of alerts created in one behaviour
MaxAlerts == 2
\* number of subscribed listeners
MaxListeners == 1
\* number of subscribe() calls in force at once where listeners are the subject
MaxSubscriptions == 2
\* the largest temperature magnitude passed in a context
MaxTemperature == 12
\* the largest fill level passed in a context
MaxFill == 26
\* number of elements of an array found in storage
MaxStored == 3

\* the value `undefined` of a string-valued property
Undefined == "undefined"

\* An object is a function from its present keys to their values; reading a
\* key that is absent yields undefined, which is falsy.
Has(obj, k) == k \in DOMAIN obj

\* JavaScript truthiness of a numeric property (undefined and 0 are falsy)
TruthyNum(obj, k) == Has(obj, k) /\ obj[k] # 0

\* JavaScript truthiness of a string property (undefined and '' are falsy)
TruthyStr(obj, k) == Has(obj, k) /\ obj[k] # ""

\* JavaScript truthiness of a boolean property
TruthyBool(obj, k) == Has(obj, k) /\ obj[k]

\* Map.prototype.set / object spread of one property
Put(obj, k, v) == [x \in DOMAIN obj \cup {k} |-> IF x = k THEN v ELSE obj[x]]

\* Map.prototype.delete of a set of keys
Remove(obj, ks) == [x \in DOMAIN obj \ ks |-> obj[x]]

EmptyObject == [x \in {} |-> 0]

\* object spread {...g, ...f}: the properties of f win
Merge(f, g) == [x \in DOMAIN f \cup DOMAIN g |-> IF x \in DOMAIN f THEN f[x] ELSE g[x]]

Abs(x) == IF x < 0 THEN -x ELSE x

Min(a, b) == IF a < b THEN a ELSE b

----------------------------------------------------------------------------
(* Domain values *)

\* Alert['type']
AlertTypes == {"empty_shelf", "temperature", "equipment_failure"}

\* ids of the configured stores
StoreIds == {"store-5th-ave", "store-times-square"}

\* the store whose alerts are filtered by direct calls of the filter
FilterStores == {"store-5th-ave"}

\* `${storeId}-${type}`: no alert type contains '-', so the text after the
\* last '-' is the type and the rest the store id; the string determines the
\* pair and the pair stands for it.
alertKey(storeId, type) == <<storeId, type>>

\* the age beyond which cleanupOldEntries deletes an entry
oneHour == 60 * 60 * 1000

\* the steps by which the clock advances between operations
ClockSteps == {1000, oneHour + 60 * 1000}

\* windows passed to setSuppressionRule
OverrideWindows == {0, 1000, 7200000}

\* the (type, context) arguments passed to shouldSuppressAlert
CallInputs ==
  { <<"empty_shelf", c>> : c \in
      { [fillPercent |-> 3],
        [fillPercent |-> 3, confidence |-> 0],
        [fillPercent |-> 3, personDetected |-> TRUE],
        [fillPercent |-> 12, isBusinessHours |-> FALSE] } }
  \cup
  { <<"temperature", c>> : c \in
      { [temperature |-> -8, isBusinessHours |-> TRUE],
        [temperature |-> 2, isBusinessHours |-> TRUE, confidence |-> 85] } }
  \cup
  { <<"equipment_failure", c>> : c \in
      { [isBusinessHours |-> TRUE, confidence |-> 50] } }

Contexts == {i[2] : i \in CallInputs}

----------------------------------------------------------------------------
(* SmartAlertFilter *)

baseTimes ==
  [empty_shelf |-> 5 * 60 * 1000,
   temperature |-> 10 * 60 * 1000,
   equipment_failure |-> 2 * 60 * 1000]

getSuppressionTimeHalvingAll(type, context, rules) ==
  IF TruthyNum(rules, type) THEN rules[type]
  ELSE IF TruthyBool(context, "isBusinessHours")
       THEN baseTimes[type] \div 2 ELSE baseTimes[type]

getSuppressionTime(type, context, rules) ==
  IF TruthyNum(rules, type) THEN rules[type]
  ELSE LET suppressionTime == IF TruthyNum(baseTimes, type) THEN baseTimes[type]
                              ELSE 5 * 60 * 1000
       IN  IF TruthyBool(context, "isBusinessHours")
              /\ type \in {"equipment_failure", "temperature"}
           THEN suppressionTime \div 2 ELSE suppressionTime

minConfidences == [empty_shelf |-> 70, temperature |-> 80, equipment_failure |-> 90]

getMinConfidence(type) ==
  IF TruthyNum(minConfidences, type) THEN minConfidences[type] ELSE 75

shouldSuppressBasedOnContextAllTypes(type, context) ==
  \/ TruthyBool(context, "personDetected")
  \/ TruthyNum(context, "fillPercent") /\ context.fillPercent > 20
  \/ TruthyNum(context, "temperature") /\ Abs(context.temperature) < 1

shouldSuppressBasedOnContextAnyHours(type, context) ==
  CASE type = "empty_shelf" ->
         \/ TruthyBool(context, "personDetected")
         \/ TruthyNum(context, "fillPercent") /\ context.fillPercent > 10
    [] type = "temperature" ->
         TruthyNum(context, "temperature") /\ Abs(context.temperature) < 3
    [] OTHER -> FALSE

shouldSuppressBasedOnContext(type, context) ==
  CASE type = "empty_shelf" ->
         \/ TruthyBool(context, "personDetected")
         \/ TruthyNum(context, "fillPercent") /\ context.fillPercent > 20
         \/ ~TruthyBool(context, "isBusinessHours") /\ TruthyNum(context, "fillPercent")
              /\ context.fillPercent > 10
    [] type = "temperature" ->
         \/ TruthyBool(context, "isBusinessHours") /\ TruthyNum(context, "temperature")
              /\ Abs(context.temperature) < 3
         \/ TruthyNum(context, "temperature") /\ Abs(context.temperature) < 1
    [] OTHER -> FALSE

\* this.recentAlerts.get(alertKey) || 0
lastAlertOf(map, key) == IF TruthyNum(map, key) THEN map[key] ELSE 0

withinWindowInverted(time, lastAlert, suppressionTime) ==
  time - lastAlert > suppressionTime

\* now - lastAlert < suppressionTime
withinWindow(time, lastAlert, suppressionTime) ==
  time - lastAlert < suppressionTime

\* context.confidence && context.confidence < this.getMinConfidence(type)
belowMinConfidence(type, context) ==
  TruthyNum(context, "confidence") /\ context.confidence < getMinConfidence(type)

\* the value returned by shouldSuppressAlert
shouldSuppressResult(storeId, type, context) ==
  \/ withinWindow(now, lastAlertOf(recentAlerts, alertKey(storeId, type)),
                  getSuppressionTime(type, context, suppressionRules))
  \/ shouldSuppressBasedOnContext(type, context)
  \/ belowMinConfidence(type, context)

cleanupOldEntries(map, time) ==
  Remove(map, {k \in DOMAIN map : time - map[k] > oneHour})

NoCall == [valid |-> FALSE]

shouldSuppressAlertForgetting(storeId, type, context) ==
  UNCHANGED <<recentAlerts, suppressionRules>>

shouldSuppressAlertRecordingAttempts(storeId, type, context) ==
  /\ recentAlerts' = cleanupOldEntries(Put(recentAlerts, alertKey(storeId, type), now), now)
  /\ UNCHANGED suppressionRules

\* the effect of one shouldSuppressAlert call on the filter
shouldSuppressAlert(storeId, type, context) ==
  LET key == alertKey(storeId, type)
      suppress == shouldSuppressResult(storeId, type, context)
  IN  /\ recentAlerts' =
           IF suppress THEN recentAlerts
           ELSE cleanupOldEntries(Put(recentAlerts, key, now), now)
      /\ UNCHANGED suppressionRules

\* the history of the direct calls of shouldSuppressAlert: the call, its
\* result, the window that applied and the last allowed call of each key
recordCall(storeId, type, context) ==
  LET key == alertKey(storeId, type)
      suppress == shouldSuppressResult(storeId, type, context)
  IN  /\ lastAllowed' = IF suppress THEN lastAllowed ELSE Put(lastAllowed, key, now)
      /\ lastCall' = [valid |-> TRUE, key |-> key, type |-> type, context |-> context,
                      at |-> now, result |-> suppress,
                      window |-> getSuppressionTime(type, context, suppressionRules),
                      fresh |-> \/ ~Has(lastAllowed, key)
                                \/ now - lastAllowed[key] >=
                                     getSuppressionTime(type, context, suppressionRules)]
      /\ calls' = calls + 1

----------------------------------------------------------------------------
(* utils.ts *)

calculateAlertSeverityNoDefault(type, context) ==
  CASE type = "temperature" -> "medium"
    [] type = "empty_shelf" -> "medium"
    [] type = "equipment_failure" -> "critical"
    [] OTHER -> Undefined

calculateAlertSeverity(type, context) ==
  CASE type = "temperature" ->
         IF ~TruthyNum(context, "temperature") THEN "medium"
         ELSE LET tempAbs == Abs(context.temperature)
              IN  IF tempAbs > 10 THEN "critical"
                  ELSE IF tempAbs > 5 THEN "high"
                  ELSE IF tempAbs > 2 THEN "medium"
                  ELSE "low"
    [] type = "empty_shelf" ->
         IF ~TruthyNum(context, "fillPercent") THEN "medium"
         ELSE IF context.fillPercent < 5 THEN "high"
         ELSE IF context.fillPercent < 15 THEN "medium"
         ELSE IF context.fillPercent < 25 THEN "low"
         ELSE "low"
    [] type = "equipment_failure" -> "critical"
    [] OTHER -> "medium"

\* isStoreActive: getDay() is 0 for Sunday and 6 for Saturday; the minute is
\* not read
isStoreActive(day, hour, minute) ==
  LET isWeekend == day = 0 \/ day = 6
      weekdayStart == 6
      weekdayEnd == 22
      weekendStart == 7
      weekendEnd == 21
  IN  IF isWeekend
      THEN hour >= weekendStart /\ hour <= weekendEnd
      ELSE hour >= weekdayStart /\ hour <= weekdayEnd

\* the value drawn for the alerts the polling loop creates
PollRandomParts == {"k3x9"}

\* `${Date.now()}-${random}`
generateId(time, random) == <<time, random>>

----------------------------------------------------------------------------
(* JSON text.  A text is modelled by the value it parses to, or as invalid. *)

InvalidText == [kind |-> "invalid"]
JNull == [kind |-> "null"]
JString == [kind |-> "string"]
JArray(items) == [kind |-> "array", items |-> items]
JObject(fields) == [kind |-> "object", fields |-> fields]

\* the properties of an alert that can hold the value undefined
OptionalStringKeys == {"imageUrl", "annotatedImageUrl"}

\* JSON.stringify of one object: a property whose value is undefined is left out
stringifyObject(obj) ==
  Remove(obj, {k \in DOMAIN obj \cap OptionalStringKeys : obj[k] = Undefined})

stringifyObjects(objs) == [i \in 1..Len(objs) |-> stringifyObject(objs[i])]

\* reading a property of an object: undefined when the key is absent
Field(obj, k) == IF Has(obj, k) THEN obj[k] ELSE Undefined

----------------------------------------------------------------------------
(* AlertManager *)

\* slice(0, 1000) of saveToStorage
RetentionCap == 1000

NoItem == [present |-> FALSE]

saveToStorageOldest(collection, item, works) ==
  IF works
  THEN [present |-> TRUE,
        text |-> JArray(stringifyObjects(
                   SubSeq(collection, Len(collection) - Min(Len(collection), RetentionCap) + 1,
                          Len(collection))))]
  ELSE item

\* the item written by saveToStorage; a failing setItem leaves the item as it was
saveToStorage(collection, item, works) ==
  IF works
  THEN [present |-> TRUE,
        text |-> JArray(stringifyObjects(SubSeq(collection, 1, Min(Len(collection), RetentionCap))))]
  ELSE item

\* the id that is the empty string (an id is the pair of its two parts)
EmptyId == <<>>

\* alert && alert.id && alert.type && alert.title && alert.message
validStructure(a) ==
  /\ a # JNull
  /\ Has(a, "id") /\ a.id # EmptyId
  /\ TruthyStr(a, "type")
  /\ TruthyStr(a, "title")
  /\ TruthyStr(a, "message")

loadFromStorageUnfiltered(item) ==
  IF ~item.present THEN <<>>
  ELSE IF item.text.kind # "array" THEN <<>>
  ELSE item.text.items

\* the collection loadFromStorage leaves in this.alerts
loadFromStorage(item) ==
  IF ~item.present THEN <<>>
  ELSE IF item.text.kind # "array" THEN <<>>
  ELSE SelectSeq(item.text.items, validStructure)

\* the alert object built by addAlert: the spread of alertData comes last
newAlert(alertData, time, random, n) ==
  LET base == [id |-> generateId(time, random),
               timestamp |-> time,
               read |-> FALSE,
               severity |-> calculateAlertSeverity(alertData.type,
                              Merge(IF Has(alertData, "temperature")
                                    THEN [temperature |-> alertData.temperature] ELSE EmptyObject,
                              Merge(IF Has(alertData, "fillPercent")
                                    THEN [fillPercent |-> alertData.fillPercent] ELSE EmptyObject,
                                    IF Has(alertData, "confidence")
                                    THEN [confidence |-> alertData.confidence] ELSE EmptyObject))),
               n |-> n]
  IN  Merge(alertData, base)

exportAlertsOldestFirst(collection, time) ==
  JObject([alerts |-> JArray([i \in 1..Len(collection) |->
                                stringifyObject(collection[Len(collection) + 1 - i])]),
           exportedAt |-> time,
           version |-> "1.0.0"])

\* the text returned by exportAlerts
exportAlerts(collection, time) ==
  JObject([alerts |-> JArray(stringifyObjects(collection)),
           exportedAt |-> time,
           version |-> "1.0.0"])

\* importAlerts: JSON.parse succeeds and data.alerts is an array
importAccepts(text) ==
  /\ text.kind = "object"
  /\ Has(text.fields, "alerts")
  /\ text.fields.alerts.kind = "array"

\* the filter objects passed to getAlerts
QueryFilters ==
  { EmptyObject,
    [storeId |-> "store-5th-ave"],
    [type |-> "temperature"],
    [severity |-> "high"],
    [unreadOnly |-> TRUE],
    [unreadOnly |-> FALSE],
    [storeId |-> "store-times-square", type |-> "temperature", unreadOnly |-> TRUE],
    [storeId |-> "store-5th-ave", severity |-> "high"],
    [limit |-> 0],
    [limit |-> 1],
    [unreadOnly |-> TRUE, limit |-> 1],
    [limit |-> 5] }

\* getAlerts(filter)
getAlerts(collection, filter) ==
  LET byStore == IF Has(filter, "storeId")
                 THEN SelectSeq(collection, LAMBDA a : Field(a, "storeId") = filter.storeId)
                 ELSE collection
      byType == IF Has(filter, "type")
                THEN SelectSeq(byStore, LAMBDA a : Field(a, "type") = filter.type)
                ELSE byStore
      bySeverity == IF Has(filter, "severity")
                    THEN SelectSeq(byType, LAMBDA a : Field(a, "severity") = filter.severity)
                    ELSE byType
      unread == IF TruthyBool(filter, "unreadOnly")
                THEN SelectSeq(bySeverity, LAMBDA a : ~a.read)
                ELSE bySeverity
  IN  IF TruthyNum(filter, "limit")
      THEN SubSeq(unread, 1, Min(Len(unread), filter.limit))
      ELSE unread

dequeueNewest(queue) ==
  [alert |-> queue[Len(queue)], rest |-> SubSeq(queue, 1, Len(queue) - 1)]

\* this.notificationQueue.shift()
dequeue(queue) == [alert |-> Head(queue), rest |-> Tail(queue)]

drainTickRetrying(queue, perm) ==
  LET d == dequeue(queue)
  IN  [alert |-> d.alert,
       queue |-> IF perm = "granted" THEN d.rest ELSE Append(d.rest, d.alert),
       awaits |-> perm = "granted"]

\* one tick of the interval of setupNotificationQueue on a non-empty queue, up
\* to the first await of sendPushNotification: the alert taken, the queue
\* left, and whether the call goes on to the delivery
drainTick(queue, perm) ==
  LET d == dequeue(queue)
  IN  [alert |-> d.alert, queue |-> d.rest, awaits |-> perm = "granted"]

----------------------------------------------------------------------------
(* InventoryMonitorApp *)

\* the `reading` property of a SensorReading: what typeof says of it and the
\* number it is, or the number a comparison converts it to ("3" to 3, null
\* to 0)
sensorValue(typeof, value) == [typeof |-> typeof, value |-> value]

\* a reading that is a number
numberReading(value) == sensorValue("number", value)

isShelfEmptyConverting(reading) == reading.value < 15

\* isShelfEmpty: the 15% threshold
isShelfEmpty(reading) == reading.typeof = "number" /\ reading.value < 15

\* isTemperatureAlert: the 5 degree threshold
isTemperatureAlert(reading) == reading.typeof = "number" /\ Abs(reading.value) > 5

\* the object createEmptyShelfAlert passes to addAlert (the display-only
\* properties storeName, location and shelves are left out)
emptyShelfAlertData(storeId, cameraFrame) ==
  [storeId |-> storeId,
   type |-> "empty_shelf",
   title |-> "Empty Shelves",
   message |-> "The following shelves are empty",
   confidence |-> 95,
   imageUrl |-> cameraFrame,
   annotatedImageUrl |-> cameraFrame]

\* the object createTemperatureAlert passes to addAlert
temperatureAlertData(storeId, reading) ==
  [storeId |-> storeId,
   type |-> "temperature",
   title |-> "Temperature Alert",
   message |-> "Temperature",
   temperature |-> reading,
   threshold |-> 5,
   confidence |-> 90]

\* the frame the polling loop gets from the camera
PollCameraFrames == {"blob:frame"}

\* readings of the fill sensor and of the temperature sensors
FillReadings == {3, 40}
TemperatureReadings == {4, -8}

\* the updateAllStores calls that can be in flight together: the one the
\* setTimeout of startRealTimeUpdates makes and one made by its setInterval
PassIds == {"initial", "interval"}

\* no call in flight
idlePass == [phase |-> "idle", stores |-> <<>>, readings |-> <<>>, failed |-> FALSE]

\* the call made by the setTimeout has returned
donePass == [idlePass EXCEPT !.phase = "done"]

----------------------------------------------------------------------------
(* Initial state: the objects as their constructors leave them *)

Init ==
  /\ now = StartTime
  /\ recentAlerts = EmptyObject
  /\ suppressionRules = EmptyObject
  /\ alerts = <<>>
  /\ persisted = NoItem
  /\ storageWorks \in BOOLEAN
  /\ listeners = <<>>
  /\ notificationQueue = <<>>
  /\ permission = "default"
  /\ cachedPermission = permission
  /\ awaitingReady = <<>>
  /\ attempts = EmptyObject
  /\ sinceTick = 0
  /\ created = 0
  /\ advances = 0
  /\ calls = 0
  /\ lastAllowed = EmptyObject
  /\ lastCall = NoCall
  /\ polling = FALSE
  /\ stateAlerts = <<>>
  /\ connections = {}
  /\ passes = [p \in PassIds |-> idlePass]
  /\ lastOp = [op |-> "init"]

\* a session in which the storage works
InitStorageWorks == Init /\ storageWorks

----------------------------------------------------------------------------
(* The clock *)

Advance(d) ==
  /\ advances < MaxAdvances
  /\ now' = now + d
  /\ advances' = advances + 1
  /\ lastOp' = [op |-> "advance"]
  /\ UNCHANGED <<storageWorks, filterVars, filterHist, storeVars, queueVars, envVars, created>>

----------------------------------------------------------------------------
(* Operations of SmartAlertFilter called directly *)

CallShouldSuppressAlert(storeId, type, context) ==
  /\ calls < MaxCalls
  /\ shouldSuppressAlert(storeId, type, context)
  /\ recordCall(storeId, type, context)
  /\ lastOp' = [op |-> "shouldSuppressAlert"]
  /\ UNCHANGED <<storageWorks, now, advances, storeVars, queueVars, envVars, created>>

setSuppressionRule(type, timeMs) ==
  /\ Cardinality(DOMAIN suppressionRules \cup {type}) <= MaxRules
  /\ suppressionRules' = Put(suppressionRules, type, timeMs)
  /\ lastOp' = [op |-> "setSuppressionRule"]
  /\ UNCHANGED <<storageWorks, now, advances, recentAlerts, filterHist, storeVars, queueVars, envVars, created>>

\* the history of allowed calls restarts with the cleared map
clearSuppressionHistory ==
  /\ recentAlerts' = EmptyObject
  /\ lastAllowed' = EmptyObject
  /\ lastCall' = NoCall
  /\ lastOp' = [op |-> "clearSuppressionHistory"]
  /\ UNCHANGED <<storageWorks, now, advances, calls, suppressionRules, storeVars, queueVars, envVars,
                 created>>

FilterNext ==
  \/ \E d \in ClockSteps : Advance(d)
  \/ \E s \in FilterStores, i \in CallInputs : CallShouldSuppressAlert(s, i[1], i[2])
  \/ \E t \in AlertTypes, w \in OverrideWindows : setSuppressionRule(t, w)
  \/ clearSuppressionHistory

FilterSpec == InitStorageWorks /\ [][FilterNext]_vars


----------------------------------------------------------------------------
(* Calls of the filter at distances around the recency windows *)

oneMinute == 60 * 1000

\* the distances between two calls: each window, and a millisecond less
WindowSteps ==
  UNION { {w * oneMinute - 1, w * oneMinute} : w \in {1, 2, 5, 10} }

\* calls that no context rule and no confidence floor suppresses, with
\* isBusinessHours true, false and absent
WindowInputs ==
  { <<"empty_shelf", [fillPercent |-> 3]>>,
    <<"empty_shelf", [fillPercent |-> 3, isBusinessHours |-> TRUE]>>,
    <<"temperature", [temperature |-> -8]>>,
    <<"temperature", [temperature |-> -8, isBusinessHours |-> TRUE]>>,
    <<"temperature", [temperature |-> -8, isBusinessHours |-> FALSE]>>,
    <<"equipment_failure", EmptyObject>>,
    <<"equipment_failure", [isBusinessHours |-> TRUE]>> }

WindowNext ==
  \/ \E d \in WindowSteps : Advance(d)
  \/ \E s \in FilterStores, i \in WindowInputs : CallShouldSuppressAlert(s, i[1], i[2])

WindowSpec == InitStorageWorks /\ [][WindowNext]_vars

----------------------------------------------------------------------------
(* One call of the filter on every context, with nothing recorded before *)

\* the flags of a context, each true, false or absent
FlagContexts ==
  { Merge(p, b) :
      p \in {EmptyObject} \cup {[personDetected |-> v] : v \in BOOLEAN},
      b \in {EmptyObject} \cup {[isBusinessHours |-> v] : v \in BOOLEAN} }

\* the readings of a context, absent or present
FillContexts == {EmptyObject} \cup {[fillPercent |-> v] : v \in 0..MaxFill}
TemperatureContexts ==
  {EmptyObject} \cup {[temperature |-> v] : v \in -MaxTemperature..MaxTemperature}

\* the (type, context) arguments: no context has a confidence
ContextInputs ==
  { <<"empty_shelf", Merge(f, r)>> : f \in FlagContexts, r \in FillContexts }
  \cup { <<"temperature", Merge(f, r)>> : f \in FlagContexts, r \in TemperatureContexts }
  \cup { <<"equipment_failure", Merge(f, r)>> :
           f \in FlagContexts, r \in FillContexts \cup TemperatureContexts }

\* equipment_failure calls with fillPercent and temperature each absent or
\* present, and a confidence absent, 0, or around the minimum of 90
EquipmentInputs ==
  { <<"equipment_failure", Merge(Merge(f, Merge(r, t)), k)>> :
      f \in FlagContexts,
      r \in {EmptyObject} \cup {[fillPercent |-> v] : v \in {0, 12, 25}},
      t \in {EmptyObject} \cup {[temperature |-> v] : v \in {0, 2, -8}},
      k \in {EmptyObject} \cup {[confidence |-> v] : v \in {0, 50, 89, 90, 100}} }

\* the first call made on a filter
FirstCall(storeId, type, context) ==
  /\ calls = 0
  /\ CallShouldSuppressAlert(storeId, type, context)

ContextNext ==
  \E s \in FilterStores, i \in ContextInputs \cup EquipmentInputs : FirstCall(s, i[1], i[2])

ContextSpec == InitStorageWorks /\ [][ContextNext]_vars

----------------------------------------------------------------------------
(* Operations of AlertManager *)

addAlertResettingRead(alertData, random) ==
  LET alert == newAlert(alertData, now, random, created + 1)
  IN  /\ alerts' = <<alert>> \o [i \in 1..Len(alerts) |-> [alerts[i] EXCEPT !.read = FALSE]]
      /\ persisted' = saveToStorage(alerts', persisted, storageWorks)
      /\ notificationQueue' = Append(notificationQueue, alert)
      /\ created' = created + 1

\* What the listeners passed to subscribe() do when they are called: "render"
\* and "badge" return; "thrower" throws; "escalate" calls addAlert from
\* inside its callback when the newest alert it is given is not itself an
\* equipment_failure alert.
listenerThrows(listener) == listener = "thrower"

listenerAdds(listener, collection) ==
  /\ listener = "escalate"
  /\ Len(collection) > 0
  /\ collection[1].type # "equipment_failure"

\* the object the "escalate" listener passes to addAlert, and the random part
\* generateId draws for it
escalationData(alert) ==
  [storeId |-> alert.storeId,
   type |-> "equipment_failure",
   title |-> "Escalation",
   message |-> "Alert raised",
   confidence |-> 95]

EscalationRandom == "f1w8"

\* the AlertManager as the calls below pass it on: the collection, the
\* persisted copy, the queue, the number of alerts created, and whether an
\* exception is propagating
managerState ==
  [alerts |-> alerts, persisted |-> persisted, queue |-> notificationQueue,
   created |-> created, threw |-> FALSE]

RECURSIVE notifyListenersFrom(_, _)
RECURSIVE addAlertCall(_, _, _)

\* notifyListeners(): forEach calls the listeners in order; an exception
\* thrown by one of them ends the forEach and propagates
notifyListenersFrom(manager, rest) ==
  IF rest = <<>> THEN manager
  ELSE IF listenerThrows(Head(rest)) THEN [manager EXCEPT !.threw = TRUE]
  ELSE IF listenerAdds(Head(rest), manager.alerts)
       THEN LET inner == addAlertCall(manager, escalationData(manager.alerts[1]),
                                      EscalationRandom)
            IN  IF inner.threw THEN inner ELSE notifyListenersFrom(inner, Tail(rest))
  ELSE notifyListenersFrom(manager, Tail(rest))

\* this.alerts.unshift(alert); saveToStorage(); notifyListeners(); queueNotification(alert)
addAlertCall(manager, alertData, random) ==
  LET alert == newAlert(alertData, now, random, manager.created + 1)
      unshifted == <<alert>> \o manager.alerts
      saved == [manager EXCEPT !.alerts = unshifted,
                               !.persisted = saveToStorage(unshifted, @, storageWorks),
                               !.created = @ + 1]
      notified == notifyListenersFrom(saved, listeners)
  IN  IF notified.threw THEN notified
      ELSE [notified EXCEPT !.queue = Append(@, alert)]

\* one call of addAlert made from outside the callbacks
addAlert(alertData, random) ==
  LET done == addAlertCall(managerState, alertData, random)
  IN  /\ alerts' = done.alerts
      /\ persisted' = done.persisted
      /\ notificationQueue' = done.queue
      /\ created' = done.created

\* the alert objects passed to addAlert by its callers, each with the random
\* part that generateId draws for it
AlertDatas ==
  { <<emptyShelfAlertData("store-5th-ave", Undefined), "k3x9">>,
    <<temperatureAlertData("store-times-square", -8), "q7m2">> }

AddAlert(alertData, random) ==
  /\ created < MaxAlerts
  /\ addAlert(alertData, random)
  /\ lastOp' = [op |-> "addAlert", writes |-> created' - created, notified |-> listeners,
                threw |-> addAlertCall(managerState, alertData, random).threw]
  /\ UNCHANGED <<storageWorks, now, advances, filterVars, filterHist, listeners,
                 awaitingReady, attempts, sinceTick, envVars>>

\* the array getAlerts returns holds the alert objects of the collection
\* themselves; what the app reads of them to find one is the id
alertIds(collection) == [i \in 1..Len(collection) |-> collection[i].id]

\* the ids of the alerts of the collection
IdsOf(collection) == {collection[i].id : i \in 1..Len(collection)}

\* an id that no alert has
MissingId == generateId(0, "none")

markAsReadToggling(alertId) ==
  LET found == {i \in 1..Len(alerts) : alerts[i].id = alertId}
      first == CHOOSE i \in found : \A j \in found : i <= j
      changes == found # {}
  IN  /\ alerts' = IF changes THEN [alerts EXCEPT ![first].read = ~@] ELSE alerts
      /\ persisted' = IF changes THEN saveToStorage(alerts', persisted, storageWorks)
                      ELSE persisted
      /\ lastOp' = [op |-> "markAsRead", alertId |-> alertId,
                    writes |-> IF changes THEN 1 ELSE 0,
                    notified |-> IF changes THEN listeners ELSE <<>>]
      /\ UNCHANGED <<storageWorks, now, advances, filterVars, filterHist, listeners,
                     queueVars, created, envVars>>

markAsRead(alertId) ==
  LET found == {i \in 1..Len(alerts) : alerts[i].id = alertId}
      first == CHOOSE i \in found : \A j \in found : i <= j
      changes == found # {} /\ ~alerts[first].read
  IN  /\ alerts' = IF changes THEN [alerts EXCEPT ![first].read = TRUE] ELSE alerts
      /\ persisted' = IF changes THEN saveToStorage(alerts', persisted, storageWorks)
                      ELSE persisted
      /\ lastOp' = [op |-> "markAsRead", alertId |-> alertId,
                    writes |-> IF changes THEN 1 ELSE 0,
                    notified |-> IF changes THEN listeners ELSE <<>>]
      /\ UNCHANGED <<storageWorks, now, advances, filterVars, filterHist, listeners,
                     queueVars, created, envVars>>

markAllAsReadAlways ==
  /\ alerts' = [i \in 1..Len(alerts) |-> [alerts[i] EXCEPT !.read = TRUE]]
  /\ persisted' = saveToStorage(alerts', persisted, storageWorks)
  /\ lastOp' = [op |-> "markAllAsRead", writes |-> 1, notified |-> listeners]
  /\ UNCHANGED <<storageWorks, now, advances, filterVars, filterHist, listeners,
                 queueVars, created, envVars>>

markAllAsRead ==
  LET hasChanges == \E i \in 1..Len(alerts) : ~alerts[i].read
  IN  /\ alerts' = [i \in 1..Len(alerts) |-> [alerts[i] EXCEPT !.read = TRUE]]
      /\ persisted' = IF hasChanges THEN saveToStorage(alerts', persisted, storageWorks)
                      ELSE persisted
      /\ lastOp' = [op |-> "markAllAsRead", writes |-> IF hasChanges THEN 1 ELSE 0,
                    notified |-> IF hasChanges THEN listeners ELSE <<>>]
      /\ UNCHANGED <<storageWorks, now, advances, filterVars, filterHist, listeners,
                     queueVars, created, envVars>>

deleteAlertTruncating(alertId) ==
  LET found == {i \in 1..Len(alerts) : alerts[i].id = alertId}
      index == CHOOSE i \in found : \A j \in found : i <= j
  IN  /\ alerts' = IF found # {} THEN SubSeq(alerts, 1, index - 1) ELSE alerts
      /\ persisted' = IF found # {} THEN saveToStorage(alerts', persisted, storageWorks)
                      ELSE persisted
      /\ lastOp' = [op |-> "deleteAlert", alertId |-> alertId,
                    writes |-> IF found # {} THEN 1 ELSE 0,
                    notified |-> IF found # {} THEN listeners ELSE <<>>]
      /\ UNCHANGED <<storageWorks, now, advances, filterVars, filterHist, listeners,
                     queueVars, created, envVars>>

deleteAlert(alertId) ==
  LET found == {i \in 1..Len(alerts) : alerts[i].id = alertId}
      index == CHOOSE i \in found : \A j \in found : i <= j
  IN  /\ alerts' = IF found # {}
                   THEN SubSeq(alerts, 1, index - 1) \o SubSeq(alerts, index + 1, Len(alerts))
                   ELSE alerts
      /\ persisted' = IF found # {} THEN saveToStorage(alerts', persisted, storageWorks)
                      ELSE persisted
      /\ lastOp' = [op |-> "deleteAlert", alertId |-> alertId,
                    writes |-> IF found # {} THEN 1 ELSE 0,
                    notified |-> IF found # {} THEN listeners ELSE <<>>]
      /\ UNCHANGED <<storageWorks, now, advances, filterVars, filterHist, listeners,
                     queueVars, created, envVars>>

clearAllDroppingQueue ==
  /\ alerts' = <<>>
  /\ persisted' = saveToStorage(alerts', persisted, storageWorks)
  /\ notificationQueue' = <<>>
  /\ lastOp' = [op |-> "clearAll", writes |-> 1, notified |-> listeners]
  /\ UNCHANGED <<storageWorks, now, advances, filterVars, filterHist, listeners,
                 awaitingReady, attempts, sinceTick, created, envVars>>

clearAllUnlessStorageFails ==
  /\ alerts' = IF storageWorks THEN <<>> ELSE alerts
  /\ persisted' = saveToStorage(alerts', persisted, storageWorks)
  /\ lastOp' = [op |-> "clearAll", writes |-> 1,
                notified |-> IF storageWorks THEN listeners ELSE <<>>]
  /\ UNCHANGED <<storageWorks, now, advances, filterVars, filterHist, listeners,
                 queueVars, created, envVars>>

clearAll ==
  /\ alerts' = <<>>
  /\ persisted' = saveToStorage(alerts', persisted, storageWorks)
  /\ lastOp' = [op |-> "clearAll", writes |-> 1, notified |-> listeners]
  /\ UNCHANGED <<storageWorks, now, advances, filterVars, filterHist, listeners,
                 queueVars, created, envVars>>

\* the listeners that subscribe
ListenerIds == {"render"}

subscribe(listener) ==
  /\ listeners' = Append(listeners, listener)
  /\ lastOp' = [op |-> "subscribe"]
  /\ UNCHANGED <<storageWorks, now, advances, filterVars, filterHist, alerts, persisted, queueVars, created, envVars>>

\* a record of an imported payload that has no title
UntitledRecord ==
  [id |-> generateId(0, "imported"),
   storeId |-> "store-5th-ave",
   type |-> "equipment_failure",
   message |-> "HVAC system offline",
   severity |-> "critical",
   timestamp |-> 0,
   read |-> FALSE,
   n |-> 0]

\* texts passed to importAlerts that are not an export
OtherTexts ==
  { InvalidText, JNull, JObject(EmptyObject), JObject([alerts |-> JString]),
    JObject([alerts |-> JArray(<<>>)]) }

\* payloads with an array under 'alerts' whose records importAlerts does not
\* look at: a record without a title, and two records with the same id
RecordTexts ==
  { JObject([alerts |-> JArray(<<UntitledRecord>>)]),
    JObject([alerts |-> JArray(<<[UntitledRecord EXCEPT !.read = TRUE] @@ [title |-> "HVAC"],
                                 UntitledRecord @@ [title |-> "HVAC"]>>)]) }

importAlertsClearing(text, collection, item, subscribers, works) ==
  IF importAccepts(text)
  THEN [result |-> TRUE,
        alerts |-> text.fields.alerts.items,
        persisted |-> saveToStorage(text.fields.alerts.items, item, works),
        notified |-> subscribers]
  ELSE [result |-> FALSE, alerts |-> <<>>, persisted |-> item, notified |-> <<>>]

\* importAlerts(text) on a store whose fields are collection, item and subscribers
importAlerts(text, collection, item, subscribers, works) ==
  IF importAccepts(text)
  THEN [result |-> TRUE,
        alerts |-> text.fields.alerts.items,
        persisted |-> saveToStorage(text.fields.alerts.items, item, works),
        notified |-> subscribers]
  ELSE [result |-> FALSE, alerts |-> collection, persisted |-> item, notified |-> <<>>]

ImportAlerts(text) ==
  LET r == importAlerts(text, alerts, persisted, listeners, storageWorks)
  IN  /\ alerts' = r.alerts
      /\ persisted' = r.persisted
      /\ lastOp' = [op |-> "importAlerts", fromExport |-> FALSE, text |-> text,
                    result |-> r.result, writes |-> IF r.result THEN 1 ELSE 0,
                    notified |-> r.notified]
      /\ UNCHANGED <<storageWorks, now, advances, filterVars, filterHist, listeners,
                     queueVars, created, envVars>>

\* importAlerts(exportAlerts()): the text exportAlerts returns is imported into
\* the same store, or into a store constructed for it (fresh)
ImportExported(fresh) ==
  LET text == exportAlerts(alerts, now)
      target == IF fresh THEN loadFromStorage(persisted) ELSE alerts
      subscribers == IF fresh THEN <<>> ELSE listeners
      r == importAlerts(text, target, persisted, subscribers, storageWorks)
  IN  /\ alerts' = r.alerts
      /\ persisted' = r.persisted
      /\ listeners' = subscribers
      /\ notificationQueue' = IF fresh THEN <<>> ELSE notificationQueue
      /\ lastOp' = [op |-> "importAlerts", fromExport |-> TRUE, source |-> alerts,
                    fresh |-> fresh, result |-> r.result,
                    writes |-> IF r.result THEN 1 ELSE 0, notified |-> r.notified]
      /\ UNCHANGED <<storageWorks, now, advances, filterVars, filterHist, awaitingReady, attempts,
                     sinceTick, created, envVars>>

\* new AlertManager(): a process restart
Restart ==
  /\ alerts' = loadFromStorage(persisted)
  /\ listeners' = <<>>
  /\ notificationQueue' = <<>>
  /\ awaitingReady' = <<>>
  /\ stateAlerts' = <<>>
  /\ lastOp' = [op |-> "restart", before |-> alerts]
  /\ UNCHANGED <<storageWorks, now, advances, filterVars, filterHist, persisted,
                 attempts, sinceTick, created, permission, cachedPermission, polling, pollVars>>

\* requireInteraction of the payload passed to showNotification
requireInteraction(alert) == alert.severity = "critical"

playsSoundUnlessLow(alert) == alert.severity # "low"

\* the test that guards playNotificationSound() after showNotification
playsSound(alert) == alert.severity = "critical" \/ alert.severity = "high"

\* the callback of setInterval in setupNotificationQueue
DrainTick ==
  /\ sinceTick' = 0
  /\ IF Len(notificationQueue) > 0
     THEN LET t == drainTick(notificationQueue, permission)
          IN  /\ notificationQueue' = t.queue
              /\ awaitingReady' = IF t.awaits
                                  THEN Append(awaitingReady, [alert |-> t.alert, path |-> "queue"])
                                  ELSE awaitingReady
              /\ lastOp' = [op |-> "drainTick", took |-> <<t.alert.n>>, skipped |-> ~t.awaits]
     ELSE /\ UNCHANGED <<notificationQueue, awaitingReady>>
          /\ lastOp' = [op |-> "drainTick", took |-> <<>>, skipped |-> FALSE]
  /\ UNCHANGED <<storageWorks, now, advances, filterVars, filterHist, storeVars, attempts, created, envVars>>

\* the continuation after `await navigator.serviceWorker.ready`: the call of
\* registration.showNotification, which succeeds or fails; on the direct
\* path createEmptyShelfAlert / createTemperatureAlert then refresh state.alerts
ReadyResolves(succeeds) ==
  /\ Len(awaitingReady) > 0
  /\ LET e == Head(awaitingReady)
         before == IF Has(attempts, e.alert.n) THEN attempts[e.alert.n]
                   ELSE [queue |-> 0, direct |-> 0]
     IN  /\ attempts' = Put(attempts, e.alert.n, [before EXCEPT ![e.path] = @ + 1])
         /\ lastOp' = [op |-> "showNotification", n |-> e.alert.n, path |-> e.path,
                       severity |-> e.alert.severity, succeeded |-> succeeds,
                       requireInteraction |-> requireInteraction(e.alert),
                       sound |-> succeeds /\ playsSound(e.alert)]
  /\ awaitingReady' = Tail(awaitingReady)
  /\ sinceTick' = Min(sinceTick + 1, 2)
  /\ stateAlerts' = IF Head(awaitingReady).path = "direct"
                    THEN alertIds(getAlerts(alerts, EmptyObject)) ELSE stateAlerts
  /\ UNCHANGED <<storageWorks, now, advances, filterVars, filterHist, storeVars,
                 notificationQueue, created, permission, cachedPermission, polling, pollVars>>

StoreNext ==
  \/ \E a \in AlertDatas : AddAlert(a[1], a[2])
  \/ \E id \in IdsOf(alerts) \cup {MissingId} : markAsRead(id)
  \/ markAllAsRead
  \/ \E id \in IdsOf(alerts) \cup {MissingId} : deleteAlert(id)
  \/ clearAll
  \/ \E l \in ListenerIds : Len(listeners) < MaxListeners /\ subscribe(l)
  \/ \E text \in OtherTexts : ImportAlerts(text)
  \/ \E fresh \in BOOLEAN : ImportExported(fresh)
  \/ Restart
  \/ DrainTick

StoreSpec == Init /\ [][StoreNext]_vars

----------------------------------------------------------------------------
(* Operations of InventoryMonitorApp and PushNotificationManager *)

\* the permissions Notification.permission has once the user has answered
Permissions == {"granted", "denied"}

\* initialize(): the permission is read (and requested when 'default'), then
\* startRealTimeUpdates() schedules the polling loop
InitializeApp(p) ==
  /\ ~polling
  /\ permission' = p
  /\ cachedPermission' = p
  /\ polling' = TRUE
  /\ lastOp' = [op |-> "initialize"]
  /\ UNCHANGED <<storageWorks, now, advances, filterVars, filterHist, storeVars, queueVars, created,
                 stateAlerts, pollVars>>

\* the user changes the permission in the browser settings
PermissionChange(p) ==
  /\ polling
  /\ p # permission
  /\ permission' = p
  /\ lastOp' = [op |-> "permissionChange"]
  /\ UNCHANGED <<storageWorks, now, advances, filterVars, filterHist, storeVars, queueVars, created,
                 cachedPermission, polling, stateAlerts, pollVars>>

\* PushNotificationManager.sendPushNotification up to its first await
directSend(alert) ==
  awaitingReady' = IF cachedPermission = "granted"
                   THEN Append(awaitingReady, [alert |-> alert, path |-> "direct"])
                   ELSE awaitingReady

\* one iteration of the loop over sensorData in processStoreData, up to the
\* suspension at `await navigator.serviceWorker.ready` inside
\* createEmptyShelfAlert; when the permission is not granted
\* sendPushNotification returns at once and state.alerts is refreshed
ProcessFillReading(storeId, reading, businessHours, cameraFrame, random) ==
  LET context == [fillPercent |-> reading.value, isBusinessHours |-> businessHours]
      candidate == isShelfEmpty(reading)
      suppressed == shouldSuppressResult(storeId, "empty_shelf", context)
  IN  /\ polling
      /\ IF candidate
         THEN shouldSuppressAlert(storeId, "empty_shelf", context)
         ELSE UNCHANGED filterVars
      /\ IF candidate /\ ~suppressed
         THEN /\ created < MaxAlerts
              /\ addAlert(emptyShelfAlertData(storeId, cameraFrame), random)
              /\ directSend(alerts'[1])
         ELSE UNCHANGED <<alerts, persisted, notificationQueue, created, awaitingReady>>
      /\ stateAlerts' = IF candidate /\ ~suppressed /\ cachedPermission # "granted"
                        THEN alertIds(getAlerts(alerts', EmptyObject)) ELSE stateAlerts
      /\ lastOp' = [op |-> "processFillReading", reading |-> reading.value,
                    typeof |-> reading.typeof,
                    alertCreated |-> candidate /\ ~suppressed,
                    notified |-> IF candidate /\ ~suppressed THEN listeners ELSE <<>>]
      /\ UNCHANGED <<storageWorks, now, advances, filterHist, listeners, attempts, sinceTick,
                     permission, cachedPermission, polling>>

\* one iteration of the loop over tempData in processStoreData, up to the
\* suspension inside createTemperatureAlert
ProcessTemperatureReading(storeId, reading, businessHours, random) ==
  LET context == [temperature |-> reading.value, isBusinessHours |-> businessHours]
      candidate == isTemperatureAlert(reading)
      suppressed == shouldSuppressResult(storeId, "temperature", context)
  IN  /\ polling
      /\ IF candidate
         THEN shouldSuppressAlert(storeId, "temperature", context)
         ELSE UNCHANGED filterVars
      /\ IF candidate /\ ~suppressed
         THEN /\ created < MaxAlerts
              /\ addAlert(temperatureAlertData(storeId, reading.value), random)
              /\ directSend(alerts'[1])
         ELSE UNCHANGED <<alerts, persisted, notificationQueue, created, awaitingReady>>
      /\ stateAlerts' = IF candidate /\ ~suppressed /\ cachedPermission # "granted"
                        THEN alertIds(getAlerts(alerts', EmptyObject)) ELSE stateAlerts
      /\ lastOp' = [op |-> "processTemperatureReading", reading |-> reading.value,
                    typeof |-> reading.typeof,
                    alertCreated |-> candidate /\ ~suppressed,
                    notified |-> IF candidate /\ ~suppressed THEN listeners ELSE <<>>]
      /\ UNCHANGED <<storageWorks, now, advances, filterHist, listeners, attempts, sinceTick,
                     permission, cachedPermission, polling>>

PipelineNext ==
  \/ \E p \in Permissions : InitializeApp(p)
  \/ \E p \in Permissions : PermissionChange(p)
  \/ \E s \in StoreIds, v \in FillReadings, bh \in BOOLEAN, f \in PollCameraFrames,
        r \in PollRandomParts : ProcessFillReading(s, numberReading(v), bh, f, r) /\ UNCHANGED pollVars
  \/ \E s \in StoreIds, v \in TemperatureReadings, bh \in BOOLEAN,
        r \in PollRandomParts : ProcessTemperatureReading(s, numberReading(v), bh, r) /\ UNCHANGED pollVars
  \/ DrainTick
  \/ \E ok \in BOOLEAN : ReadyResolves(ok)

PipelineSpec == InitStorageWorks /\ [][PipelineNext]_vars

----------------------------------------------------------------------------
(* The polling loop with readings at the thresholds and readings that are
   not numbers *)

\* fill readings: numbers around the 15% threshold, the string "3" and null
ThresholdFillReadings ==
  {numberReading(v) : v \in {0, 14, 15, 40}}
    \cup {sensorValue("string", 3), sensorValue("object", 0)}

\* temperature readings: numbers around the 5 degree threshold and the
\* string "-8"
ThresholdTemperatureReadings ==
  {numberReading(v) : v \in {0, 5, -5, 6, -6}} \cup {sensorValue("string", -8)}

ThresholdNext ==
  \/ \E p \in Permissions : InitializeApp(p)
  \/ \E s \in StoreIds, v \in ThresholdFillReadings, bh \in BOOLEAN, f \in PollCameraFrames,
        r \in PollRandomParts : ProcessFillReading(s, v, bh, f, r) /\ UNCHANGED pollVars
  \/ \E s \in StoreIds, v \in ThresholdTemperatureReadings, bh \in BOOLEAN,
        r \in PollRandomParts : ProcessTemperatureReading(s, v, bh, r) /\ UNCHANGED pollVars

ThresholdSpec == InitStorageWorks /\ [][ThresholdNext]_vars

----------------------------------------------------------------------------
(* A store filled up to the retention cap *)

\* the alert added again and again
RetentionInputs == { <<temperatureAlertData("store-times-square", -8), "q7m2">> }

\* the collection after k addAlert calls that followed one another a
\* millisecond apart, the last of them at time - 1: newest first
Filled(k, time) ==
  [i \in 1..k |-> newAlert(temperatureAlertData("store-times-square", -8), time - i, "q7m2",
                           k + 1 - i)]

\* a store with working storage to which RetentionCap - 1 alerts were added
\* and whose notification queue the ticks have emptied since
RetentionInit ==
  /\ now = StartTime
  /\ recentAlerts = EmptyObject
  /\ suppressionRules = EmptyObject
  /\ alerts = Filled(RetentionCap - 1, StartTime)
  /\ persisted = saveToStorage(alerts, NoItem, TRUE)
  /\ storageWorks = TRUE
  /\ listeners = <<>>
  /\ notificationQueue = <<>>
  /\ permission = "default"
  /\ cachedPermission = permission
  /\ awaitingReady = <<>>
  /\ attempts = EmptyObject
  /\ sinceTick = 0
  /\ created = RetentionCap - 1
  /\ advances = 0
  /\ calls = 0
  /\ lastAllowed = EmptyObject
  /\ lastCall = NoCall
  /\ polling = FALSE
  /\ stateAlerts = <<>>
  /\ connections = {}
  /\ passes = [p \in PassIds |-> idlePass]
  /\ lastOp = [op |-> "addAlert", writes |-> 1, notified |-> <<>>]

\* addAlert calls that follow one another, a millisecond apart
AddSequentially(alertData, random) ==
  /\ created < RetentionCap + MaxAlerts - 1
  /\ addAlert(alertData, random)
  /\ now' = now + 1
  /\ lastOp' = [op |-> "addAlert", writes |-> 1, notified |-> listeners]
  /\ UNCHANGED <<storageWorks, advances, filterVars, filterHist, listeners,
                 awaitingReady, attempts, sinceTick, envVars>>

\* the collection has reached the cap
AtCap == Len(alerts) >= RetentionCap

\* the ids of the newest and of the oldest alert
EndIds == IF alerts = <<>> THEN {} ELSE {alerts[1].id, alerts[Len(alerts)].id}

RetentionNext ==
  \/ \E a \in RetentionInputs : AddSequentially(a[1], a[2])
  \/ AtCap /\ markAllAsRead
  \/ AtCap /\ \E id \in EndIds : deleteAlert(id)
  \/ AtCap /\ clearAll
  \/ AtCap /\ ImportExported(FALSE)
  \/ AtCap /\ Restart

RetentionSpec == RetentionInit /\ [][RetentionNext]_vars

----------------------------------------------------------------------------
(* A store that is handed records by its callers *)

\* the alert objects passed to addAlert: one with the required properties,
\* one that also carries id, timestamp, read and severity
CarriedInputs ==
  { <<temperatureAlertData("store-times-square", -8), "q7m2">>,
    <<temperatureAlertData("store-times-square", -8) @@
        [id |-> generateId(0, "caller"), timestamp |-> 0, read |-> TRUE, severity |-> "low"],
      "k3x9">> }

RecordsNext ==
  \/ \E a \in CarriedInputs : AddAlert(a[1], a[2])
  \/ \E text \in RecordTexts : ImportAlerts(text)
  \/ \E id \in IdsOf(alerts) : markAsRead(id)
  \/ \E id \in IdsOf(alerts) : deleteAlert(id)
  \/ Restart

RecordsSpec == Init /\ [][RecordsNext]_vars

----------------------------------------------------------------------------
(* The store and its subscribers: listeners subscribe, one of them perhaps
   twice, and call the unsubscribe functions subscribe() returned *)

\* the listener functions
SubscriberIds == {"render", "badge"}

\* the listeners of a subscriber array
Subscribed(subscribers) == {subscribers[i] : i \in 1..Len(subscribers)}

\* the function subscribe(listener) returned is called
unsubscribe(listener) ==
  /\ listeners' = SelectSeq(listeners, LAMBDA l : l # listener)
  /\ lastOp' = [op |-> "unsubscribe", listener |-> listener, before |-> listeners]
  /\ UNCHANGED <<storageWorks, now, advances, filterVars, filterHist, alerts, persisted,
                 queueVars, created, envVars>>

\* an unsubscribe function exists once its listener has subscribed; it is
\* called while the listener is subscribed, or once more right after
Unsubscribe(listener) ==
  /\ \/ listener \in Subscribed(listeners)
     \/ lastOp.op = "unsubscribe" /\ lastOp.listener = listener
  /\ unsubscribe(listener)

SubscriberNext ==
  \/ \E l \in SubscriberIds : Len(listeners) < MaxSubscriptions /\ subscribe(l)
  \/ \E l \in SubscriberIds : Unsubscribe(l)
  \/ \E a \in RetentionInputs : AddAlert(a[1], a[2])
  \/ \E id \in IdsOf(alerts) \cup {MissingId} : markAsRead(id)
  \/ markAllAsRead
  \/ \E id \in IdsOf(alerts) \cup {MissingId} : deleteAlert(id)
  \/ clearAll
  \/ \E text \in OtherTexts : ImportAlerts(text)

SubscriberSpec == Init /\ [][SubscriberNext]_vars

----------------------------------------------------------------------------
(* The polling passes: updateAllStores visits the selected stores one after
   the other, and two calls of it can be in flight together *)

\* state.selectedStores, in the order updateAllStores visits them
SelectedStores == <<"store-5th-ave", "store-times-square">>

\* what the fill sensor holds, two empty shelves, and whether reading it
\* fails
SensorOutcomes ==
  { [fails |-> f, readings |-> <<numberReading(3), numberReading(7)>>] : f \in BOOLEAN }

\* what the temperature sensors hold and whether reading them fails
TemperatureOutcomes ==
  { [fails |-> f, readings |-> <<numberReading(-8)>>] : f \in BOOLEAN }

\* the time that passes between two steps of the passes
PollClockSteps == {4 * oneMinute}

getSensorDataKeepingReadings(connected, outcome) == outcome.readings

\* getSensorData: [] without a connection and when the read throws
getSensorData(connected, outcome) ==
  IF ~connected THEN <<>>
  ELSE IF outcome.fails THEN <<>>
  ELSE outcome.readings

\* getTemperatureData: [] without a connection and when a read throws
getTemperatureData(connected, outcome) ==
  IF ~connected THEN <<>>
  ELSE IF outcome.fails THEN <<>>
  ELSE outcome.readings

\* connectToStore(store) succeeds, in initialize() or after the store was
\* selected
ConnectToStore(storeId) ==
  /\ storeId \notin connections
  /\ connections' = connections \cup {storeId}
  /\ lastOp' = [op |-> "connectToStore", store |-> storeId]
  /\ UNCHANGED <<storageWorks, now, advances, filterVars, filterHist, storeVars, queueVars,
                 created, permission, cachedPermission, polling, stateAlerts, passes>>

\* everything a step of a pass leaves alone unless it processes a reading
passFrame ==
  <<storageWorks, now, advances, filterVars, filterHist, storeVars, queueVars, created,
    permission, cachedPermission, polling, stateAlerts, connections>>

\* a timer of startRealTimeUpdates fires, the setTimeout once and the
\* setInterval again and again: updateAllStores() copies the selected stores
UpdateAllStores(p) ==
  /\ polling
  /\ passes[p].phase = "idle"
  /\ passes' = [passes EXCEPT ![p] = [phase |-> "stores", stores |-> SelectedStores,
                                      readings |-> <<>>, failed |-> FALSE]]
  /\ lastOp' = [op |-> "updateAllStores", pass |-> p]
  /\ UNCHANGED passFrame

\* the head of the loop over the selected stores: processStoreData is called
\* for a connected store, up to `await getSensorData`, and a store that is
\* not connected is passed over; after the last store the call returns
NextStore(p) ==
  /\ passes[p].phase = "stores"
  /\ IF passes[p].stores = <<>>
     THEN /\ passes' = [passes EXCEPT ![p] = IF p = "initial" THEN donePass ELSE idlePass]
          /\ lastOp' = [op |-> "nextStore", pass |-> p, done |-> TRUE, connected |-> FALSE]
     ELSE IF Head(passes[p].stores) \in connections
     THEN /\ passes' = [passes EXCEPT ![p].phase = "sensor"]
          /\ lastOp' = [op |-> "nextStore", pass |-> p, done |-> FALSE, connected |-> TRUE]
     ELSE /\ passes' = [passes EXCEPT ![p].stores = Tail(@)]
          /\ lastOp' = [op |-> "nextStore", pass |-> p, done |-> FALSE, connected |-> FALSE]
  /\ UNCHANGED passFrame

\* getSensorData and getCameraFrame return
SensorDataReturns(p, outcome) ==
  /\ passes[p].phase = "sensor"
  /\ LET sensorData == getSensorData(Head(passes[p].stores) \in connections, outcome)
     IN  /\ passes' = [passes EXCEPT ![p].phase = "fill", ![p].readings = sensorData,
                                     ![p].failed = outcome.fails]
         /\ lastOp' = [op |-> "getSensorData", pass |-> p, failed |-> outcome.fails,
                       returned |-> sensorData]
  /\ UNCHANGED passFrame

\* one iteration of the loop over sensorData
FillIteration(p, businessHours, cameraFrame, random) ==
  /\ passes[p].phase = "fill"
  /\ passes[p].readings # <<>>
  /\ ProcessFillReading(Head(passes[p].stores), Head(passes[p].readings), businessHours,
                        cameraFrame, random)
  /\ passes' = [passes EXCEPT ![p].readings = Tail(@)]
  /\ UNCHANGED connections

\* the loop over sensorData ends, up to `await getTemperatureData`
FillLoopEnds(p) ==
  /\ passes[p].phase = "fill"
  /\ passes[p].readings = <<>>
  /\ passes' = [passes EXCEPT ![p].phase = "temperature", ![p].failed = FALSE]
  /\ lastOp' = [op |-> "fillLoopEnds", pass |-> p]
  /\ UNCHANGED passFrame

\* getTemperatureData returns
TemperatureDataReturns(p, outcome) ==
  /\ passes[p].phase = "temperature"
  /\ LET tempData == getTemperatureData(Head(passes[p].stores) \in connections, outcome)
     IN  /\ passes' = [passes EXCEPT ![p].phase = "temp", ![p].readings = tempData,
                                     ![p].failed = outcome.fails]
         /\ lastOp' = [op |-> "getTemperatureData", pass |-> p, failed |-> outcome.fails,
                       returned |-> tempData]
  /\ UNCHANGED passFrame

\* one iteration of the loop over tempData
TemperatureIteration(p, businessHours, random) ==
  /\ passes[p].phase = "temp"
  /\ passes[p].readings # <<>>
  /\ ProcessTemperatureReading(Head(passes[p].stores), Head(passes[p].readings),
                               businessHours, random)
  /\ passes' = [passes EXCEPT ![p].readings = Tail(@)]
  /\ UNCHANGED connections

\* the loop over tempData ends and processStoreData returns to the loop over
\* the stores
TemperatureLoopEnds(p) ==
  /\ passes[p].phase = "temp"
  /\ passes[p].readings = <<>>
  /\ passes' = [passes EXCEPT ![p].phase = "stores", ![p].stores = Tail(@),
                              ![p].failed = FALSE]
  /\ lastOp' = [op |-> "temperatureLoopEnds", pass |-> p]
  /\ UNCHANGED passFrame

\* the passes are followed in an app whose user has denied notifications:
\* sendPushNotification returns at once and nothing waits for the service
\* worker
PollPermissions == {"denied"}

PollNext ==
  \/ \E p \in PollPermissions : InitializeApp(p)
  \/ \E s \in StoreIds : ConnectToStore(s)
  \/ \E d \in PollClockSteps : Advance(d)
  \/ \E p \in PassIds : UpdateAllStores(p)
  \/ \E p \in PassIds : NextStore(p)
  \/ \E p \in PassIds, o \in SensorOutcomes : SensorDataReturns(p, o)
  \/ \E p \in PassIds, bh \in BOOLEAN, f \in PollCameraFrames, r \in PollRandomParts :
        FillIteration(p, bh, f, r)
  \/ \E p \in PassIds : FillLoopEnds(p)
  \/ \E p \in PassIds, o \in TemperatureOutcomes : TemperatureDataReturns(p, o)
  \/ \E p \in PassIds, bh \in BOOLEAN, r \in PollRandomParts : TemperatureIteration(p, bh, r)
  \/ \E p \in PassIds : TemperatureLoopEnds(p)

PollSpec == InitStorageWorks /\ [][PollNext]_vars

----------------------------------------------------------------------------
(* The operations that keep the collection ordered: up to three alerts, two
   of which may carry the same id, are added, read and deleted *)

AddOrdered(alertData, random) ==
  /\ created < MaxAlerts + 1
  /\ addAlert(alertData, random)
  /\ lastOp' = [op |-> "addAlert", writes |-> 1, notified |-> listeners]
  /\ UNCHANGED <<storageWorks, now, advances, filterVars, filterHist, listeners,
                 awaitingReady, attempts, sinceTick, envVars>>

OrderNext ==
  \/ \E a \in AlertDatas : AddOrdered(a[1], a[2])
  \/ \E id \in IdsOf(alerts) \cup {MissingId} : markAsRead(id)
  \/ markAllAsRead
  \/ \E id \in IdsOf(alerts) \cup {MissingId} : deleteAlert(id)

OrderSpec == InitStorageWorks /\ [][OrderNext]_vars

----------------------------------------------------------------------------
(* Alerts are deleted while they wait in the queue *)

DequeueNext ==
  \/ \E p \in Permissions : InitializeApp(p)
  \/ \E a \in AlertDatas : AddAlert(a[1], a[2])
  \/ \E id \in IdsOf(alerts) \cup {MissingId} : deleteAlert(id)
  \/ clearAll
  \/ DrainTick
  \/ \E ok \in BOOLEAN : ReadyResolves(ok)

DequeueSpec == InitStorageWorks /\ [][DequeueNext]_vars

\* setInterval calls the drain tick every 2 seconds
DequeueLiveSpec == DequeueSpec /\ WF_vars(DrainTick)

----------------------------------------------------------------------------
(* The store with listeners that act in their callbacks, and the drain tick *)

\* the listener functions
CallbackListeners == {"render", "thrower", "escalate"}

CallbackNext ==
  \/ \E l \in CallbackListeners : Len(listeners) < MaxSubscriptions /\ subscribe(l)
  \/ \E a \in AlertDatas : AddAlert(a[1], a[2])
  \/ DrainTick

CallbackSpec == Init /\ [][CallbackNext]_vars

\* setInterval calls the drain tick every 2 seconds for as long as the
\* process lives
CallbackLiveSpec == CallbackSpec /\ WF_vars(DrainTick)

----------------------------------------------------------------------------
(* The dispatch of alerts of every severity *)

\* alert objects whose severities are critical, high, medium and low
DispatchInputs ==
  { <<temperatureAlertData("store-times-square", t), "q7m2">> : t \in {-12, -8, 4, 1} }

DispatchNext ==
  \/ \E p \in Permissions : InitializeApp(p)
  \/ \E p \in Permissions : PermissionChange(p)
  \/ \E a \in DispatchInputs : AddAlert(a[1], a[2])
  \/ DrainTick
  \/ \E ok \in BOOLEAN : ReadyResolves(ok)

DispatchSpec == InitStorageWorks /\ [][DispatchNext]_vars

----------------------------------------------------------------------------
(* The functions of utils.ts, called once on every argument *)

\* new Date(): the day of the week, hour and minute of the local time
Days == 0..6
Hours == 0..23
Minutes == 0..59

\* a type outside Alert['type']
UnknownType == "door_open"

\* the context objects: temperature and fillPercent each absent or present
SeverityContexts ==
  { Merge(t, f) :
      t \in {EmptyObject} \cup {[temperature |-> v] : v \in -MaxTemperature..MaxTemperature},
      f \in {EmptyObject} \cup {[fillPercent |-> v] : v \in 0..MaxFill} }

\* the functions read nothing but their arguments: a behaviour makes one call
CallIsStoreActive(day, hour, minute) ==
  /\ lastOp.op = "init"
  /\ lastOp' = [op |-> "isStoreActive", day |-> day, hour |-> hour, minute |-> minute,
                result |-> isStoreActive(day, hour, minute)]
  /\ UNCHANGED <<storageWorks, now, advances, filterVars, filterHist, storeVars,
                 queueVars, created, envVars>>

CallCalculateAlertSeverity(type, context) ==
  /\ lastOp.op = "init"
  /\ lastOp' = [op |-> "calculateAlertSeverity", type |-> type, context |-> context,
                result |-> calculateAlertSeverity(type, context)]
  /\ UNCHANGED <<storageWorks, now, advances, filterVars, filterHist, storeVars,
                 queueVars, created, envVars>>

UtilsNext ==
  \/ \E d \in Days, h \in Hours, mi \in Minutes : CallIsStoreActive(d, h, mi)
  \/ \E t \in AlertTypes \cup {UnknownType}, c \in SeverityContexts :
        CallCalculateAlertSeverity(t, c)

UtilsSpec == InitStorageWorks /\ [][UtilsNext]_vars

----------------------------------------------------------------------------
(* Opening an alert in InventoryMonitorApp *)

\* the ways openAlert is reached: a click on an alert card, the
\* NOTIFICATION_CLICKED message of the service worker, the ?alert= parameter
OpenPaths == {"click", "message", "deeplink"}

\* openAlert(alertId): the alert is looked up in state.alerts, and only when
\* it is found there markAsRead is called and state.alerts refreshed
openAlert(alertId, path) ==
  LET known == \E i \in 1..Len(stateAlerts) : stateAlerts[i] = alertId
      found == {i \in 1..Len(alerts) : alerts[i].id = alertId}
      first == CHOOSE i \in found : \A j \in found : i <= j
      changes == known /\ found # {} /\ ~alerts[first].read
  IN  /\ alerts' = IF changes THEN [alerts EXCEPT ![first].read = TRUE] ELSE alerts
      /\ persisted' = IF changes THEN saveToStorage(alerts', persisted, storageWorks)
                      ELSE persisted
      /\ stateAlerts' = IF known THEN alertIds(getAlerts(alerts', EmptyObject))
                        ELSE stateAlerts
      /\ lastOp' = [op |-> "openAlert", alertId |-> alertId, path |-> path,
                    known |-> known,
                    writes |-> IF changes THEN 1 ELSE 0,
                    notified |-> IF changes THEN listeners ELSE <<>>]
      /\ UNCHANGED <<storageWorks, now, advances, filterVars, filterHist, listeners,
                     queueVars, created, permission, cachedPermission, polling, pollVars>>

\* a card of the rendered alert list is clicked
ClickAlert(alertId) ==
  /\ \E i \in 1..Len(stateAlerts) : stateAlerts[i] = alertId
  /\ openAlert(alertId, "click")

\* the notification shown for an alert of the store is clicked while the
\* page is open
NotificationClicked(alertId) ==
  /\ \E i \in 1..Len(alerts) : alerts[i].id = alertId /\ Has(attempts, alerts[i].n)
  /\ openAlert(alertId, "message")

\* the page was loaded with ?alert=<id>: the timer set by bindEvents in the
\* constructor fires one second later, before the first polling pass
DeepLink(alertId) ==
  /\ lastOp.op = "restart"
  /\ openAlert(alertId, "deeplink")

AppNext ==
  \/ \E p \in Permissions : InitializeApp(p)
  \/ \E s \in StoreIds, v \in TemperatureReadings, bh \in BOOLEAN,
        r \in PollRandomParts : ProcessTemperatureReading(s, numberReading(v), bh, r) /\ UNCHANGED pollVars
  \/ \E ok \in BOOLEAN : ReadyResolves(ok)
  \/ Restart
  \/ \E id \in IdsOf(alerts) : ClickAlert(id)
  \/ \E id \in IdsOf(alerts) : NotificationClicked(id)
  \/ \E id \in IdsOf(alerts) : DeepLink(id)

AppSpec == InitStorageWorks /\ [][AppNext]_vars

----------------------------------------------------------------------------
(* Construction over an item in storage that the store did not write *)

\* a stored record with all the properties of an alert
StoredRecord == UntitledRecord @@ [title |-> "HVAC"]

\* the elements of a stored array: null, a string, two records with all
\* properties, and records without an id, with an empty id, without a type,
\* with an empty title and without a message
StoredElements ==
  { JNull, JString,
    StoredRecord,
    [StoredRecord EXCEPT !.id = generateId(1, "imported"), !.read = TRUE],
    Remove(StoredRecord, {"id"}),
    [StoredRecord EXCEPT !.id = EmptyId],
    Remove(StoredRecord, {"type"}),
    [StoredRecord EXCEPT !.title = ""],
    Remove(StoredRecord, {"message"}) }

\* the empty string
EmptyText == [kind |-> "empty"]

StoredArrays ==
  UNION { [1..k -> StoredElements] : k \in 0..MaxStored }

\* what getItem('pret-alerts') returns: null, the empty string, text that
\* does not parse, JSON that is not an array, and arrays
StoredItems ==
  {NoItem} \cup
  { [present |-> TRUE, text |-> t] :
      t \in {EmptyText, InvalidText, JNull, JString, JObject(EmptyObject),
             JObject([alerts |-> JArray(<<StoredRecord>>)])}
            \cup {JArray(items) : items \in StoredArrays} }

\* the page before the AlertManager is constructed
LoadInit ==
  /\ now = StartTime
  /\ recentAlerts = EmptyObject
  /\ suppressionRules = EmptyObject
  /\ alerts = <<>>
  /\ persisted \in StoredItems
  /\ storageWorks = TRUE
  /\ listeners = <<>>
  /\ notificationQueue = <<>>
  /\ permission = "default"
  /\ cachedPermission = permission
  /\ awaitingReady = <<>>
  /\ attempts = EmptyObject
  /\ sinceTick = 0
  /\ created = 0
  /\ advances = 0
  /\ calls = 0
  /\ lastAllowed = EmptyObject
  /\ lastCall = NoCall
  /\ polling = FALSE
  /\ stateAlerts = <<>>
  /\ connections = {}
  /\ passes = [p \in PassIds |-> idlePass]
  /\ lastOp = [op |-> "init"]

LoadNext ==
  \/ Restart
  \/ \E id \in IdsOf(alerts) : markAsRead(id)

LoadSpec == LoadInit /\ [][LoadNext]_vars

----------------------------------------------------------------------------
(* Claims about SmartAlertFilter *)

\* a step that is one shouldSuppressAlert call
IsCallStep == calls' = calls + 1

\* no context rule and no confidence floor suppresses the payload
PayloadPasses(call) ==
  /\ ~shouldSuppressBasedOnContext(call.type, call.context)
  /\ ~belowMinConfidence(call.type, call.context)

\* C1: a call for a key returns true whenever the time elapsed since the last
\* allowed call for that key is less than the suppression window applicable
\* to the call.
C1_RecencyWindow ==
  [][ ( /\ IsCallStep
        /\ Has(lastAllowed, lastCall'.key)
        /\ lastCall'.at - lastAllowed[lastCall'.key] < lastCall'.window )
      => lastCall'.result = TRUE ]_vars

\* C2: a call for a key with no allowed call inside its window, and with a
\* payload that no context rule and no confidence floor suppresses, returns
\* false, and the next call for the same key made within the window returns
\* true.
C2_FirstAllowedSecondSuppressed ==
  [][ IsCallStep =>
        /\ (lastCall'.fresh /\ PayloadPasses(lastCall')) => lastCall'.result = FALSE
        /\ ( /\ lastCall.valid
             /\ lastCall.key = lastCall'.key
             /\ lastCall.fresh
             /\ PayloadPasses(lastCall)
             /\ lastCall'.at - lastCall.at < lastCall'.window )
           => (lastCall.result = FALSE /\ lastCall'.result = TRUE) ]_vars

\* C2 witness: a second call, made later than an allowed call for the same
\* key and inside the window, with a payload that passes, was suppressed.
C2_Witness ==
  /\ lastCall.valid
  /\ PayloadPasses(lastCall)
  /\ Has(lastAllowed, lastCall.key)
  /\ lastAllowed[lastCall.key] < lastCall.at
  /\ lastCall.at - lastAllowed[lastCall.key] < lastCall.window
  /\ lastCall.result = TRUE

\* C3: after setSuppressionRule(type, w) the recency window of that type is
\* exactly w for every w >= 0 and every context, and the windows of the types
\* without a rule are the defaults.
C3_OverrideWindowExact ==
  \A t \in AlertTypes, c \in Contexts :
    IF Has(suppressionRules, t)
    THEN getSuppressionTime(t, c, suppressionRules) = suppressionRules[t]
    ELSE getSuppressionTime(t, c, suppressionRules) = getSuppressionTime(t, c, EmptyObject)

\* the minimum confidence of each type as the claim states it
ClaimedMinConfidence == [empty_shelf |-> 70, temperature |-> 80, equipment_failure |-> 90]

\* C4: a call whose context carries a confidence (0 included) below the
\* minimum of its type returns true.
C4_ConfidenceFloor ==
  ( /\ lastCall.valid
    /\ Has(lastCall.context, "confidence")
    /\ lastCall.context.confidence < ClaimedMinConfidence[lastCall.type] )
  => lastCall.result = TRUE


----------------------------------------------------------------------------
(* Claims about the pipeline: polling loop, Alert Store, dispatcher *)

\* C5: a fill reading below 5 that the suppression check allows leaves in the
\* Alert Store an alert of type empty_shelf and severity high, returned by
\* getAlerts({unreadOnly: true}).
C5_EndToEndHighSeverity ==
  (lastOp.op = "processFillReading" /\ lastOp.reading < 5 /\ lastOp.alertCreated)
  => \E i \in 1..Len(getAlerts(alerts, [unreadOnly |-> TRUE])) :
       LET a == getAlerts(alerts, [unreadOnly |-> TRUE])[i]
       IN  a.n = created /\ a.type = "empty_shelf" /\ a.severity = "high"

\* C6: the delivery collaborator receives at most one delivery attempt per
\* drain-tick interval, and each created alert is handed to it at most once.
C6_NotificationRateBound ==
  /\ sinceTick <= 1
  /\ \A n \in DOMAIN attempts : attempts[n].queue + attempts[n].direct <= 1

\* C7: each drain tick removes at most one entry, always the oldest one, and
\* the calls of the delivery collaborator made for the queue come in the
\* order in which the alerts were enqueued.
C7_QueueFifo ==
  [][ /\ lastOp'.op = "drainTick" =>
           IF notificationQueue = <<>>
           THEN notificationQueue' = <<>> /\ lastOp'.took = <<>>
           ELSE /\ notificationQueue' = Tail(notificationQueue)
                /\ lastOp'.took = <<Head(notificationQueue).n>>
      /\ \A i, j \in 1..Len(notificationQueue') :
           i < j => notificationQueue'[i].n < notificationQueue'[j].n
      /\ (lastOp'.op = "showNotification" /\ lastOp'.path = "queue")
           => \A m \in DOMAIN attempts : m > lastOp'.n => attempts[m].queue = 0 ]_vars

\* C7 witness: a tick has taken an alert while the delivery of an older one
\* was still in flight.
C7_Witness ==
  /\ lastOp.op = "drainTick"
  /\ lastOp.took # <<>>
  /\ \E i, j \in 1..Len(awaitingReady) :
       /\ i < j
       /\ awaitingReady[i].path = "queue"
       /\ awaitingReady[j].path = "queue"
       /\ awaitingReady[j].alert.n = lastOp.took[1]

\* the alerts whose entry a tick has taken from the queue without a delivery
Dropped ==
  {n \in 1..created :
     /\ \A i \in 1..Len(notificationQueue) : notificationQueue[i].n # n
     /\ \A i \in 1..Len(awaitingReady) :
          ~(awaitingReady[i].alert.n = n /\ awaitingReady[i].path = "queue")
     /\ ~(Has(attempts, n) /\ attempts[n].queue > 0)}

\* C8: a tick on a non-empty queue leaves the queue one entry shorter whether
\* or not the delivery is permitted; an alert taken from the queue is never
\* enqueued again and never attempted a second time, also when the delivery
\* was skipped or has failed.
C8_DropOnFailureNoRetry ==
  [][ /\ (lastOp'.op = "drainTick" /\ notificationQueue # <<>>)
           => Len(notificationQueue') = Len(notificationQueue) - 1
      /\ (lastOp'.op = "drainTick" /\ lastOp'.skipped)
           => (awaitingReady' = awaitingReady /\ attempts' = attempts)
      /\ \A i \in 1..Len(notificationQueue') :
           \/ \E j \in 1..Len(notificationQueue) :
                notificationQueue[j].n = notificationQueue'[i].n
           \/ (created' = created + 1 /\ notificationQueue'[i].n = created')
      /\ \A n \in DOMAIN attempts' : attempts'[n].queue <= 1
      /\ Dropped \subseteq Dropped' ]_vars

\* C8 witness: the delivery of one alert has just failed and another alert
\* was dropped by a tick that found the delivery not permitted.
C8_Witness ==
  /\ lastOp.op = "showNotification"
  /\ lastOp.path = "queue"
  /\ ~lastOp.succeeded
  /\ Dropped \ {lastOp.n} # {}

----------------------------------------------------------------------------
(* Claims about export and import *)

\* property k is the same in objects a and b
SameProperty(a, b, k) ==
  IF k \in OptionalStringKeys
  THEN Field(a, k) = Field(b, k)
  ELSE (Has(a, k) <=> Has(b, k)) /\ (Has(a, k) => a[k] = b[k])

SameAlerts(c, d) ==
  /\ Len(c) = Len(d)
  /\ \A i \in 1..Len(c) : \A k \in DOMAIN c[i] \cup DOMAIN d[i] : SameProperty(c[i], d[i], k)

BadImportText(text) ==
  \/ text.kind = "invalid"
  \/ text.kind # "object"
  \/ ~Has(text.fields, "alerts")
  \/ text.fields.alerts.kind # "array"

\* C10: importAlerts of a text that is not parseable or has no array under
\* 'alerts' returns false, leaves the collection, the persisted copy and the
\* notification queue as they were and notifies no subscriber; of any other
\* text it returns true and replaces the whole collection.
C10_FailedImportPreservesState ==
  [][ (lastOp'.op = "importAlerts" /\ ~lastOp'.fromExport) =>
        IF BadImportText(lastOp'.text)
        THEN /\ lastOp'.result = FALSE
             /\ lastOp'.notified = <<>>
             /\ alerts' = alerts
             /\ persisted' = persisted
             /\ notificationQueue' = notificationQueue
             /\ listeners' = listeners
        ELSE /\ lastOp'.result = TRUE
             /\ alerts' = lastOp'.text.fields.alerts.items
             /\ lastOp'.notified = listeners ]_vars

\* C10 witness: an import has failed on a store that holds alerts, a
\* persisted copy, a queued notification and a subscriber.
C10_Witness ==
  /\ lastOp.op = "importAlerts"
  /\ ~lastOp.fromExport
  /\ ~lastOp.result
  /\ Len(alerts) > 0
  /\ persisted.present
  /\ Len(notificationQueue) > 0
  /\ Len(listeners) > 0

----------------------------------------------------------------------------
(* Claims about persistence *)

\* the operations of the store that change its state
MutatingOps == {"addAlert", "markAsRead", "markAllAsRead", "deleteAlert", "clearAll", "importAlerts"}

\* the first k elements of a sequence, all of them when it is shorter
Newest(collection, k) == SubSeq(collection, 1, IF Len(collection) < k THEN Len(collection) ELSE k)

\* C11: with working storage, after every store operation that writes, the
\* persisted collection is the newest min(n, 1000) alerts of the collection
\* in memory, in the same order; with 1001 alerts in memory exactly 1000 are
\* persisted and the one left out is the oldest.
C11_Retention ==
  /\ (lastOp.op \in MutatingOps /\ lastOp.writes > 0) => persisted.present
  /\ persisted.present =>
       /\ persisted.text.kind = "array"
       /\ SameAlerts(persisted.text.items, Newest(alerts, 1000))

\* C11 witness: the 1001st alert has been added; 1000 are persisted, the
\* newest first and the first one added left out.
C11_Witness ==
  /\ lastOp.op = "addAlert"
  /\ Len(alerts) = 1001
  /\ alerts[1001].n = 1
  /\ Len(persisted.text.items) = 1000
  /\ persisted.text.items[1].n = 1001
  /\ persisted.text.items[1000].n = 2

WellFormed(a) ==
  /\ Has(a, "id") /\ a.id # EmptyId
  /\ Has(a, "type") /\ a.type # ""
  /\ Has(a, "title") /\ a.title # ""
  /\ Has(a, "message") /\ a.message # ""

----------------------------------------------------------------------------
(* Claims about the identity of alerts *)

\* C15: the alert addAlert returns (the head of the collection) is unread,
\* has an id and a timestamp generated at the call, and the severity the
\* classifier gives for its type and numeric context, also when the input
\* carries id, timestamp, read or severity itself.
C15_IdentityFieldsSynthesized ==
  lastOp.op = "addAlert"
  => LET a == alerts[1]
     IN  /\ a.read = FALSE
         /\ a.id[1] = now
         /\ a.timestamp = now
         /\ a.severity = calculateAlertSeverity(a.type, a)

\* C16: no two alerts of the collection share an id.
C16_IdsUnique ==
  \A i, j \in 1..Len(alerts) : i # j => alerts[i].id # alerts[j].id

----------------------------------------------------------------------------
(* Claims about the operations of the Alert Store *)

\* the persisted copy is what a write of the collection leaves
Written(collection, item) ==
  /\ item.present
  /\ item.text.kind = "array"
  /\ SameAlerts(item.text.items, Newest(collection, 1000))

\* C13: after markAllAsRead every alert is read; a call that changes an
\* alert makes one write and notifies every subscriber once; a call on a
\* collection whose alerts are all read, as it is right after another call,
\* changes neither the collection nor the persisted copy, writes nothing and
\* notifies nobody.
C13_MarkAllAsReadIdempotent ==
  [][ lastOp'.op = "markAllAsRead" =>
        /\ Len(alerts') = Len(alerts)
        /\ \A i \in 1..Len(alerts') : alerts'[i].read
        /\ (\E i \in 1..Len(alerts) : ~alerts[i].read)
             => /\ lastOp'.writes = 1
                /\ lastOp'.notified = listeners
                /\ storageWorks => Written(alerts', persisted')
        /\ (\A i \in 1..Len(alerts) : alerts[i].read)
             => /\ alerts' = alerts
                /\ persisted' = persisted
                /\ lastOp'.writes = 0
                /\ lastOp'.notified = <<>> ]_vars

\* C13 witness: markAllAsRead was called on a store with a subscriber whose
\* alerts were all read already.
C13_Witness ==
  /\ lastOp.op = "markAllAsRead"
  /\ lastOp.writes = 0
  /\ Len(alerts) > 0
  /\ Len(listeners) > 0

\* C14: markAsRead(id) changes nothing, writes nothing and notifies nobody
\* when no alert has the id or the alert that has it (the first one, should
\* two alerts share the id) is read; otherwise it sets the read flag of that
\* alert and of no other, writes and notifies.
C14_MarkAsReadNoOp ==
  [][ lastOp'.op = "markAsRead" =>
        LET found == {i \in 1..Len(alerts) : alerts[i].id = lastOp'.alertId}
        IN  /\ found = {}
                 => /\ UNCHANGED <<alerts, persisted, notificationQueue, listeners>>
                    /\ lastOp'.writes = 0
                    /\ lastOp'.notified = <<>>
            /\ \A i \in found :
                 (\A j \in found : i <= j) =>
                   IF alerts[i].read
                   THEN /\ UNCHANGED <<alerts, persisted, notificationQueue, listeners>>
                        /\ lastOp'.writes = 0
                        /\ lastOp'.notified = <<>>
                   ELSE /\ alerts' = [alerts EXCEPT ![i].read = TRUE]
                        /\ lastOp'.writes = 1
                        /\ lastOp'.notified = listeners
                        /\ storageWorks => Written(alerts', persisted')
                        /\ UNCHANGED <<notificationQueue, listeners>> ]_vars

\* C14 witness: markAsRead was called with the id of the only alert that has
\* it, which was read already, on a store with a subscriber.
C14_Witness ==
  /\ lastOp.op = "markAsRead"
  /\ lastOp.writes = 0
  /\ Cardinality({i \in 1..Len(alerts) : alerts[i].id = lastOp.alertId}) = 1
  /\ Len(alerts) = 2
  /\ Len(listeners) > 0

\* C17: an operation of the store other than deleteAlert, clearAll and
\* importAlerts leaves every alert of the collection in it, in order, with
\* all its properties but the read flag as they were, and the read flag
\* never goes from true to false.
C17_AlertsImmutable ==
  [][ lastOp'.op \notin {"deleteAlert", "clearAll", "importAlerts", "restart"} =>
        LET k == Len(alerts') - Len(alerts)
        IN  /\ k \in {0, 1}
            /\ \A i \in 1..Len(alerts) :
                 /\ DOMAIN alerts'[i + k] = DOMAIN alerts[i]
                 /\ \A key \in DOMAIN alerts[i] \ {"read"} :
                      alerts'[i + k][key] = alerts[i][key]
                 /\ alerts[i].read => alerts'[i + k].read ]_vars

\* C17 witness: an alert was added to a store that held a read alert, which
\* is still there and still read.
C17_Witness ==
  /\ lastOp.op = "addAlert"
  /\ Len(alerts) = 2
  /\ alerts[2].read
  /\ ~alerts[1].read

\* the alerts that satisfy all the criteria a filter supplies
Satisfies(a, filter) ==
  /\ Has(filter, "storeId") => a.storeId = filter.storeId
  /\ Has(filter, "type") => a.type = filter.type
  /\ Has(filter, "severity") => a.severity = filter.severity
  /\ (Has(filter, "unreadOnly") /\ filter.unreadOnly) => ~a.read

\* C19: getAlerts(filter) returns the alerts that satisfy all the criteria
\* supplied, in collection order, cut to the first `limit` of them for every
\* limit >= 0 supplied.
C19_GetAlertsFilters ==
  \A filter \in QueryFilters :
    LET matching == SelectSeq(alerts, LAMBDA a : Satisfies(a, filter))
    IN  getAlerts(alerts, filter) =
          IF Has(filter, "limit") THEN Newest(matching, filter.limit) ELSE matching

\* C20: when the write to storage fails, every operation of the store still
\* changes the collection in memory, notifies the subscribers and, for
\* addAlert, enqueues the alert.
C20_StorageFailureInMemory ==
  [][ ~storageWorks =>
        /\ lastOp'.op = "addAlert"
             => /\ Len(alerts') = Len(alerts) + 1
                /\ Tail(alerts') = alerts
                /\ notificationQueue' = Append(notificationQueue, alerts'[1])
                /\ lastOp'.notified = listeners
        /\ lastOp'.op = "markAsRead"
             => \A i \in 1..Len(alerts) :
                  (alerts[i].id = lastOp'.alertId
                     /\ \A j \in 1..(i - 1) : alerts[j].id # lastOp'.alertId)
                  => /\ alerts'[i].read
                     /\ ~alerts[i].read => lastOp'.notified = listeners
        /\ lastOp'.op = "markAllAsRead"
             => /\ \A i \in 1..Len(alerts') : alerts'[i].read
                /\ (\E i \in 1..Len(alerts) : ~alerts[i].read) => lastOp'.notified = listeners
        /\ lastOp'.op = "deleteAlert"
             => ((\E i \in 1..Len(alerts) : alerts[i].id = lastOp'.alertId)
                   => /\ Len(alerts') = Len(alerts) - 1
                      /\ lastOp'.notified = listeners)
        /\ lastOp'.op = "clearAll"
             => /\ alerts' = <<>>
                /\ lastOp'.notified = listeners
        /\ (lastOp'.op = "importAlerts" /\ ~lastOp'.fromExport /\ ~BadImportText(lastOp'.text))
             => /\ lastOp'.result = TRUE
                /\ alerts' = lastOp'.text.fields.alerts.items
                /\ lastOp'.notified = listeners ]_vars

\* C20 witness: an alert was added to a store with a subscriber whose
\* storage fails: it is in the collection and in the queue, and nothing was
\* persisted.
C20_Witness ==
  /\ ~storageWorks
  /\ lastOp.op = "addAlert"
  /\ Len(lastOp.notified) > 0
  /\ Len(alerts) > 0
  /\ Len(notificationQueue) > 0
  /\ ~persisted.present

----------------------------------------------------------------------------
(* Claims about the subscribers *)

\* how many times a listener is in a subscriber array
Invocations(listener, subscribers) ==
  Cardinality({i \in 1..Len(subscribers) : subscribers[i] = listener})

\* C18: an operation of the store that changes its state invokes every
\* subscribed listener exactly once and no other listener; calling the
\* unsubscribe function of a listener takes that listener out and leaves the
\* other listeners subscribed, in order, and calling it again changes nothing.
C18_SubscribersNotifiedOnce ==
  [][ /\ (lastOp'.op \in MutatingOps /\ lastOp'.writes = 1)
           => \A l \in SubscriberIds :
                Invocations(l, lastOp'.notified) =
                  IF l \in Subscribed(listeners) THEN 1 ELSE 0
      /\ lastOp'.op = "unsubscribe"
           => /\ lastOp'.listener \notin Subscribed(listeners')
              /\ SelectSeq(listeners', LAMBDA l : l # lastOp'.listener)
                   = SelectSeq(listeners, LAMBDA l : l # lastOp'.listener)
              /\ (lastOp.op = "unsubscribe" /\ lastOp.listener = lastOp'.listener)
                   => listeners' = listeners ]_vars

----------------------------------------------------------------------------
(* Claims about loading *)

\* C21: whatever the item in storage is, after construction every alert of
\* the collection has a non-empty id, type, title and message, and the
\* collection is the records of the stored array that have them, in order
\* (empty when the item is not an array).
C21_LoadFiltersMalformed ==
  lastOp.op = "restart" =>
    /\ \A i \in 1..Len(alerts) : WellFormed(alerts[i])
    /\ alerts = IF persisted.present /\ persisted.text.kind = "array"
                THEN SelectSeq(persisted.text.items, WellFormed)
                ELSE <<>>

\* C21 witness: the store was constructed over an array that holds a record
\* with all properties, a malformed element, and another record with all
\* properties, and holds the two records.
C21_Witness ==
  /\ lastOp.op = "restart"
  /\ persisted.present
  /\ persisted.text.kind = "array"
  /\ Len(persisted.text.items) = 3
  /\ ~WellFormed(persisted.text.items[2])
  /\ Len(alerts) = 2
  /\ alerts[1] # alerts[2]

----------------------------------------------------------------------------
(* Claims about InventoryMonitorApp *)

\* C22: opening an alert that is in the store, by a click, by the
\* NOTIFICATION_CLICKED message or by the deep link after a restart, leaves
\* that alert read in the store.
C22_OpenAlertMarksRead ==
  [][ lastOp'.op = "openAlert" =>
        \A i \in 1..Len(alerts) :
          (alerts[i].id = lastOp'.alertId
             /\ \A j \in 1..(i - 1) : alerts[j].id # lastOp'.alertId)
          => /\ Len(alerts') = Len(alerts)
             /\ alerts'[i].read ]_vars

----------------------------------------------------------------------------
(* Claims about the dispatch *)

\* C23: a showNotification call plays the sound exactly when it succeeded
\* and the alert is critical or high, and its payload has requireInteraction
\* exactly when the alert is critical; the call is made for an alert whose
\* sendPushNotification was waiting, and a drain tick that skips the delivery
\* (permission not granted) makes no alert wait for one, so that no sound
\* follows from it.
C23_SoundAfterDelivery ==
  [][ /\ lastOp'.op = "showNotification"
           => /\ lastOp'.sound <=> (lastOp'.succeeded
                                     /\ lastOp'.severity \in {"critical", "high"})
              /\ lastOp'.requireInteraction <=> (lastOp'.severity = "critical")
              /\ awaitingReady # <<>>
              /\ Head(awaitingReady).alert.n = lastOp'.n
              /\ Head(awaitingReady).alert.severity = lastOp'.severity
      /\ (lastOp'.op = "drainTick" /\ lastOp'.skipped)
           => /\ permission # "granted"
              /\ awaitingReady' = awaitingReady
      /\ lastOp'.op \notin {"showNotification", "drainTick"}
           => \A i \in 1..Len(awaitingReady') :
                awaitingReady'[i].path = "queue" =>
                  i <= Len(awaitingReady) /\ awaitingReady[i] = awaitingReady'[i] ]_vars

\* C23 witness: the delivery of a queued high alert has succeeded and the
\* sound was played, without requireInteraction.
C23_Witness ==
  /\ lastOp.op = "showNotification"
  /\ lastOp.path = "queue"
  /\ lastOp.succeeded
  /\ lastOp.severity = "high"
  /\ lastOp.sound
  /\ ~lastOp.requireInteraction

----------------------------------------------------------------------------
(* Claims about utils.ts *)

\* C24: isStoreActive is true exactly when the local time is from 06:00 to
\* 22:00 on Monday to Friday or from 07:00 to 21:00 on Saturday and Sunday.
C24_BusinessHours ==
  lastOp.op = "isStoreActive" =>
    LET minuteOfDay == lastOp.hour * 60 + lastOp.minute
    IN  lastOp.result <=>
          IF lastOp.day \in {0, 6}
          THEN 7 * 60 <= minuteOfDay /\ minuteOfDay <= 21 * 60
          ELSE 6 * 60 <= minuteOfDay /\ minuteOfDay <= 22 * 60

\* C25: for a temperature alert with a temperature t the severity is critical
\* if |t| > 10, else high if |t| > 5, else medium if |t| > 2, else low, also
\* for t = 0; without a temperature it is medium.
C25_TemperatureSeverity ==
  (lastOp.op = "calculateAlertSeverity" /\ lastOp.type = "temperature") =>
    lastOp.result =
      IF ~Has(lastOp.context, "temperature") THEN "medium"
      ELSE IF Abs(lastOp.context.temperature) > 10 THEN "critical"
      ELSE IF Abs(lastOp.context.temperature) > 5 THEN "high"
      ELSE IF Abs(lastOp.context.temperature) > 2 THEN "medium"
      ELSE "low"

\* C26: for an empty-shelf alert with a fill level f the severity is high if
\* f < 5, medium if 5 <= f < 15 and low otherwise, also for f = 0; without a
\* fill level it is medium.
C26_EmptyShelfSeverity ==
  (lastOp.op = "calculateAlertSeverity" /\ lastOp.type = "empty_shelf") =>
    lastOp.result =
      IF ~Has(lastOp.context, "fillPercent") THEN "medium"
      ELSE IF lastOp.context.fillPercent < 5 THEN "high"
      ELSE IF lastOp.context.fillPercent < 15 THEN "medium"
      ELSE "low"

\* C27: calculateAlertSeverity returns one of low, medium, high and critical
\* for every type and context, critical for every equipment_failure and
\* medium for a type it does not know.
C27_SeverityTotal ==
  lastOp.op = "calculateAlertSeverity" =>
    /\ lastOp.result \in {"low", "medium", "high", "critical"}
    /\ lastOp.type = "equipment_failure" => lastOp.result = "critical"
    /\ lastOp.type \notin AlertTypes => lastOp.result = "medium"

\* C27 witness: the severity of a type that is not an alert type was asked
\* for with a context that has a temperature and a fill level.
C27_Witness ==
  /\ lastOp.op = "calculateAlertSeverity"
  /\ lastOp.type = UnknownType
  /\ Has(lastOp.context, "temperature")
  /\ Has(lastOp.context, "fillPercent")
  /\ lastOp.result = "medium"

----------------------------------------------------------------------------
(* Claims about the timing map of SmartAlertFilter *)

\* C28: a shouldSuppressAlert call that returns true leaves the timing map
\* as it was; a call that returns false sets the entry of its own key to the
\* current time and changes no other entry but to delete those older than one
\* hour; so every entry is the time of the last allowed call of its key.
C28_SuppressedCallChangesNothing ==
  [][ IsCallStep =>
        /\ lastCall'.result => recentAlerts' = recentAlerts
        /\ ~lastCall'.result =>
             /\ Has(recentAlerts', lastCall'.key)
             /\ recentAlerts'[lastCall'.key] = now
             /\ \A k \in DOMAIN recentAlerts' \ {lastCall'.key} :
                  Has(recentAlerts, k) /\ recentAlerts'[k] = recentAlerts[k]
             /\ \A k \in DOMAIN recentAlerts \ DOMAIN recentAlerts' :
                  now - recentAlerts[k] > oneHour
        /\ \A k \in DOMAIN recentAlerts' :
             Has(lastAllowed', k) /\ recentAlerts'[k] = lastAllowed'[k] ]_vars

\* C28 witness: a call was suppressed after the clock had advanced since the
\* allowed call of its key, and the entry is still the time of that call.
C28_Witness ==
  /\ lastCall.valid
  /\ lastCall.result
  /\ Has(recentAlerts, lastCall.key)
  /\ recentAlerts[lastCall.key] < lastCall.at
  /\ Cardinality(DOMAIN recentAlerts) > 1

\* the recency window of a type without an override, in milliseconds:
\* the defaults and the halved ones as the claim states them
ClaimedWindow(type, context) ==
  LET businessHours == Has(context, "isBusinessHours") /\ context.isBusinessHours
  IN  CASE type = "empty_shelf" -> 5 * oneMinute
        [] type = "temperature" -> IF businessHours THEN 5 * oneMinute ELSE 10 * oneMinute
        [] type = "equipment_failure" -> IF businessHours THEN oneMinute ELSE 2 * oneMinute

----------------------------------------------------------------------------
(* Claims about the context rules of SmartAlertFilter *)

\* C30: an empty_shelf call outside the recency window and without a
\* confidence returns true exactly when personDetected is true, or
\* fillPercent is above 20, or isBusinessHours is not true and fillPercent is
\* above 10.
C30_EmptyShelfContextRule ==
  ( /\ lastCall.valid
    /\ lastCall.type = "empty_shelf"
    /\ lastCall.fresh
    /\ ~Has(lastCall.context, "confidence") )
  => LET c == lastCall.context
         person == Has(c, "personDetected") /\ c.personDetected
         businessHours == Has(c, "isBusinessHours") /\ c.isBusinessHours
     IN  lastCall.result <=>
           \/ person
           \/ Has(c, "fillPercent") /\ c.fillPercent > 20
           \/ ~businessHours /\ Has(c, "fillPercent") /\ c.fillPercent > 10

\* C30 witness: an empty_shelf call outside business hours with a fill level
\* between 10 and 20 and nobody detected was suppressed.
C30_Witness ==
  /\ lastCall.valid
  /\ lastCall.type = "empty_shelf"
  /\ lastCall.fresh
  /\ Has(lastCall.context, "isBusinessHours") /\ ~lastCall.context.isBusinessHours
  /\ Has(lastCall.context, "personDetected") /\ ~lastCall.context.personDetected
  /\ Has(lastCall.context, "fillPercent")
  /\ lastCall.context.fillPercent > 10 /\ lastCall.context.fillPercent <= 20
  /\ lastCall.result

\* C31: a temperature call outside the recency window and without a
\* confidence returns true exactly when its temperature t is present and
\* either isBusinessHours is true and |t| < 3, or |t| < 1, also for t = 0.
C31_TemperatureContextRule ==
  ( /\ lastCall.valid
    /\ lastCall.type = "temperature"
    /\ lastCall.fresh
    /\ ~Has(lastCall.context, "confidence") )
  => LET c == lastCall.context
         businessHours == Has(c, "isBusinessHours") /\ c.isBusinessHours
     IN  lastCall.result <=>
           /\ Has(c, "temperature")
           /\ \/ businessHours /\ Abs(c.temperature) < 3
              \/ Abs(c.temperature) < 1

\* C32: an equipment_failure call outside the recency window whose confidence
\* is absent or at least 90 returns false, whatever personDetected,
\* isBusinessHours, fillPercent and temperature are: such a call is suppressed
\* only inside the window or by a confidence below 90.
C32_EquipmentFailureNotSuppressedByContext ==
  ( /\ lastCall.valid
    /\ lastCall.type = "equipment_failure"
    /\ lastCall.fresh
    /\ \/ ~Has(lastCall.context, "confidence")
       \/ lastCall.context.confidence >= 90 )
  => ~lastCall.result

\* C32 witness: an equipment_failure call with a person detected, outside
\* business hours, with a fill level above 20, a temperature of 0 and a
\* confidence of 90 was allowed.
C32_Witness ==
  /\ lastCall.valid
  /\ lastCall.type = "equipment_failure"
  /\ lastCall.fresh
  /\ TruthyBool(lastCall.context, "personDetected")
  /\ Has(lastCall.context, "isBusinessHours") /\ ~lastCall.context.isBusinessHours
  /\ Has(lastCall.context, "fillPercent") /\ lastCall.context.fillPercent > 20
  /\ Has(lastCall.context, "temperature") /\ lastCall.context.temperature = 0
  /\ Has(lastCall.context, "confidence") /\ lastCall.context.confidence = 90
  /\ ~lastCall.result

----------------------------------------------------------------------------
(* Claims about the polling loop *)

\* what an iteration of the polling loop can change besides its own position
pollEffects == <<recentAlerts, suppressionRules, alerts, persisted, notificationQueue>>

\* the reading of the step fails the threshold of its source
BelowThreshold(op) ==
  \/ /\ op.op = "processFillReading"
     /\ op.typeof # "number" \/ op.reading >= 15
  \/ /\ op.op = "processTemperatureReading"
     /\ op.typeof # "number" \/ Abs(op.reading) <= 5

\* the type of alert each loop raises
PollType(op) == IF op.op = "processFillReading" THEN "empty_shelf" ELSE "temperature"

\* the context the loop passes with the reading of the step
PollContext(op, businessHours) ==
  IF op.op = "processFillReading"
  THEN [fillPercent |-> op.reading, isBusinessHours |-> businessHours]
  ELSE [temperature |-> op.reading, isBusinessHours |-> businessHours]

\* C33: a fill reading that is not a number or is at least 15, and a
\* temperature reading that is not a number or has |reading| <= 5, leave the
\* timing map, the Alert Store and the notification queue unchanged; an alert
\* is created only for a reading that passes the threshold and that the
\* suppression check, made in the state before, allows.
C33_ThresholdBeforeSuppression ==
  [][ /\ BelowThreshold(lastOp')
         => (UNCHANGED pollEffects /\ ~lastOp'.alertCreated)
      /\ (lastOp'.op \in {"processFillReading", "processTemperatureReading"} /\ alerts' # alerts)
         => /\ ~BelowThreshold(lastOp')
            /\ \E bh \in BOOLEAN :
                 ~shouldSuppressResult(alerts'[1].storeId, PollType(lastOp'),
                                       PollContext(lastOp', bh))
    ]_vars

\* C33 witness: with alerts stored and allowed emissions recorded, the loop
\* has read a fill level that is not a number.
C33_Witness ==
  /\ lastOp.op = "processFillReading"
  /\ lastOp.typeof = "string"
  /\ Len(alerts) = 1
  /\ Has(recentAlerts, alertKey("store-5th-ave", "temperature"))
  /\ ~Has(recentAlerts, alertKey("store-5th-ave", "empty_shelf"))

----------------------------------------------------------------------------
(* Claims about the store and its subscribers' callbacks *)

\* how many entries of the queue hold the n-th alert created
TimesQueued(queue, n) == Cardinality({i \in 1..Len(queue) : queue[i].n = n})

\* the n-th alert created is in the queue
Queued(n) == TimesQueued(notificationQueue, n) > 0

\* every alert a step creates is in the queue once after the step, and no
\* alert is ever in the queue twice
EnqueuedOnce ==
  [][ /\ \A n \in (created + 1)..created' : TimesQueued(notificationQueue', n) = 1
      /\ \A n \in 1..created' : TimesQueued(notificationQueue', n) <= 1 ]_vars

\* every alert in the queue eventually leaves it, so the queue empties once
\* no more alerts are added
EventuallyDequeued ==
  /\ \A n \in 1..(MaxAlerts + 1) : Queued(n) ~> ~Queued(n)
  /\ <>[](notificationQueue = <<>>)

\* C34: every alert created by addAlert is enqueued exactly once, whatever the
\* subscribers do in their callbacks, and with the drain tick firing
\* repeatedly every enqueued alert is eventually dequeued, so that the queue
\* drains to empty once no more alerts are produced.
C34_EnqueuedOnceAndDrained == EnqueuedOnce /\ EventuallyDequeued

\* C35: store operations are atomic with respect to each other, also when a
\* subscriber invokes one from inside its notification callback, so that the
\* alerts stand in the notification queue in the order of the addAlert calls
\* that created them.
C35_QueueInCallOrder ==
  \A i, j \in 1..Len(notificationQueue) :
    i < j => notificationQueue[i].n < notificationQueue[j].n

----------------------------------------------------------------------------
(* Claims about the order of the collection *)

\* the creation numbers of the alerts of a collection, in its order
CreationNumbers(collection) == [i \in 1..Len(collection) |-> collection[i].n]

\* a sequence without its i-th element
Without(seq, i) == SubSeq(seq, 1, i - 1) \o SubSeq(seq, i + 1, Len(seq))

\* the collection holds later created alerts before earlier created ones
NewestFirst ==
  \A i, j \in 1..Len(alerts) : i < j => alerts[i].n > alerts[j].n

\* addAlert puts its alert at index 0 before the others, markAsRead and
\* markAllAsRead move nothing, and deleteAlert takes out one alert that has
\* the id, or nothing when no alert has it
OrderKept ==
  [][ /\ lastOp'.op = "addAlert"
         => /\ alerts'[1].n = created'
            /\ Tail(alerts') = alerts
      /\ lastOp'.op \in {"markAsRead", "markAllAsRead"}
         => CreationNumbers(alerts') = CreationNumbers(alerts)
      /\ lastOp'.op = "deleteAlert"
         => IF lastOp'.alertId \in IdsOf(alerts)
            THEN \E i \in 1..Len(alerts) :
                   /\ alerts[i].id = lastOp'.alertId
                   /\ alerts' = Without(alerts, i)
            ELSE alerts' = alerts ]_vars

\* C36: after any sequence of addAlert, markAsRead, markAllAsRead and
\* deleteAlert the collection is in reverse creation order: the alert of the
\* latest addAlert is at index 0, no operation changes the relative order of
\* the other alerts, and deleteAlert removes the alert with the given id and
\* nothing else, nothing at all when no alert has the id.
C36_NewestFirstOrdering == []NewestFirst /\ OrderKept

\* C36 witness: the middle one of three alerts has been deleted.
C36_Witness ==
  /\ lastOp.op = "deleteAlert"
  /\ lastOp.writes = 1
  /\ created = MaxAlerts + 1
  /\ CreationNumbers(alerts) = <<created, 1>>

----------------------------------------------------------------------------
(* Claims about the timing map *)

\* C37: after every shouldSuppressAlert call, allowed or suppressed, the
\* timing map holds no entry that is more than one hour old.
C37_TimingMapBounded ==
  [][ calls' = calls + 1
      => \A k \in DOMAIN recentAlerts' : now' - recentAlerts'[k] <= oneHour ]_vars

----------------------------------------------------------------------------
(* Claims about the polling passes *)

\* the pass that has just got the data of a source, or passed over a store
Pass(op) == op.pass

\* C38: when a store is not connected or the read of a source fails, the
\* source returns an empty sequence, the pass creates no alert from that
\* source and leaves the timing map unchanged, nothing is thrown, and the
\* pass goes on to the remaining selected stores.
C38_SensorFailureAbsorbed ==
  [][ /\ \A o \in SensorOutcomes : getSensorData(FALSE, o) = <<>>
      /\ \A o \in TemperatureOutcomes : getTemperatureData(FALSE, o) = <<>>
      /\ (lastOp'.op \in {"getSensorData", "getTemperatureData"} /\ lastOp'.failed)
         => /\ lastOp'.returned = <<>>
            /\ UNCHANGED pollEffects
            /\ passes'[Pass(lastOp')].readings = <<>>
            /\ passes'[Pass(lastOp')].phase \in {"fill", "temp"}
            /\ passes'[Pass(lastOp')].stores = passes[Pass(lastOp')].stores
      /\ (lastOp'.op = "nextStore" /\ ~lastOp'.done /\ ~lastOp'.connected)
         => /\ UNCHANGED pollEffects
            /\ passes'[Pass(lastOp')].phase = "stores"
            /\ passes'[Pass(lastOp')].stores = Tail(passes[Pass(lastOp')].stores)
      /\ (alerts' # alerts \/ recentAlerts' # recentAlerts)
         => \E p \in PassIds :
              /\ passes[p].phase \in {"fill", "temp"}
              /\ ~passes[p].failed
              /\ Head(passes[p].stores) \in connections
              /\ passes[p].readings # <<>>
              /\ passes'[p].readings = Tail(passes[p].readings) ]_vars

\* C38 witness: in a pass that created an alert for the first store and
\* found the second store connected, the read of the fill sensor has failed.
C38_Witness ==
  /\ lastOp.op = "getSensorData"
  /\ lastOp.failed
  /\ passes[Pass(lastOp)].stores = <<"store-times-square">>
  /\ Len(alerts) > 0
  /\ Has(recentAlerts, alertKey("store-5th-ave", "empty_shelf"))

\* C39: whatever the number of shelves that read below the threshold, and
\* also when two polling passes overlap, two empty_shelf alerts of one store
\* are never created less than five minutes apart: of several empty shelves
\* read within the window only the first yields an alert.
C39_OneEmptyShelfAlertPerWindow ==
  \A i, j \in 1..Len(alerts) :
    ( /\ i < j
      /\ alerts[i].type = "empty_shelf"
      /\ alerts[j].type = "empty_shelf"
      /\ alerts[i].storeId = alerts[j].storeId )
    => alerts[i].timestamp - alerts[j].timestamp >= 5 * oneMinute

\* C39 witness: while both passes are in the loop over the shelves of the
\* same store, the second empty shelf has been read and has raised no alert.
C39_Witness ==
  /\ lastOp.op = "processFillReading"
  /\ lastOp.reading = 7
  /\ ~lastOp.alertCreated
  /\ \A p \in PassIds : passes[p].phase = "fill" /\ passes[p].stores = SelectedStores
  /\ passes["initial"].readings = <<>>
  /\ passes["interval"].readings = <<numberReading(3), numberReading(7)>>
  /\ \E i \in 1..Len(alerts) :
       alerts[i].type = "empty_shelf" /\ alerts[i].storeId = "store-5th-ave"

----------------------------------------------------------------------------
(* Claims about deleted alerts and the queue *)

\* the n-th alert created is in the collection
Stored(n) == \E i \in 1..Len(alerts) : alerts[i].n = n

\* deleteAlert and clearAll leave the queue and the pending deliveries as
\* they are, and a drain tick takes the oldest entry of the queue and, with
\* the permission granted, goes on to deliver it, whether or not the store
\* still holds the alert
QueueKeepsDeleted ==
  [][ /\ lastOp'.op \in {"deleteAlert", "clearAll"}
         => UNCHANGED <<notificationQueue, awaitingReady>>
      /\ (lastOp'.op = "drainTick" /\ notificationQueue # <<>>)
         => /\ notificationQueue' = Tail(notificationQueue)
            /\ lastOp'.took = <<Head(notificationQueue).n>>
            /\ permission = "granted"
               => awaitingReady' = Append(awaitingReady,
                                          [alert |-> Head(notificationQueue), path |-> "queue"])
    ]_vars

\* C40: deleteAlert and clearAll leave the notification queue unchanged: an
\* alert deleted or cleared before its drain tick is still dequeued later and
\* handed to the delivery, so that a dispatched alert need not be in the
\* store when it is dispatched.
C40_DeletedAlertsStillDispatched ==
  /\ QueueKeepsDeleted
  /\ \A n \in 1..MaxAlerts : (Queued(n) /\ ~Stored(n)) ~> ~Queued(n)

\* C40 witness: showNotification has been called from the queue for an alert
\* that the store no longer holds.
C40_Witness ==
  /\ lastOp.op = "showNotification"
  /\ lastOp.path = "queue"
  /\ lastOp.succeeded
  /\ ~Stored(lastOp.n)

====
